---------------------------- MODULE Spec2Model ----------------------------
(***************************************************************************)
(* Schema-to-runtime binding engine of the dynamic form backend.           *)
(*                                                                         *)
(* The repository ships several entry files of the same Express server.    *)
(* Three of them are modelled, told apart by the variable "variant":       *)
(*   "server"  src/backend/server.js (awaits the store connection, no      *)
(*             runtime schema update, by-id operations need the store)     *)
(*   "full"    src/unnamed/part_002 lines 163-673 (schema update           *)
(*             endpoint, complete in-memory fallback)                      *)
(*   "vercel"  src/unnamed/part_002 lines 1-161 (per-request handler that  *)
(*             mounts the routers on every invocation)                     *)
(* The two utility modules are applied to their inputs on their own:       *)
(* validateSchema of src/backend/utils/schemaValidator.js, and             *)
(* createDynamicModel of src/backend/models/DynamicModel.js, for which     *)
(* "variant" holds "dynamic".                                              *)
(*                                                                         *)
(* A JavaScript object is modelled as the sequence of its entries in       *)
(* insertion order; an absent string is "", an absent object is marked by  *)
(* a has... flag.                                                          *)
(***************************************************************************)
EXTENDS Integers, Sequences, FiniteSets, TLC

VARIABLES
    variant,            \* which entry file (or model builder) runs
    pc,                 \* "load" (module not evaluated), "bound", "crashed"
    mongoUriSet,        \* process.env.MONGODB_URI is set
    cached,             \* global.mongoose: [conn, promise]
    connPending,        \* a connection attempt nobody awaits is in flight
    isMongoConnected,   \* the flag of the same name
    schemaFile,         \* schemaConfig.json on disk
    currentSchema,      \* the variable of the same name
    modelCache,         \* sequence of cached models (key: model name)
    stack,              \* the Express middleware stack, in mount order
    registeredRoutes,   \* Map entity -> route, as a sequence of entries
    memoryStore,        \* entity -> sequence of records
    db,                 \* external store: model name -> sequence of records
    clock,              \* Date.now()
    nextRouter,         \* identity of the next express.Router() object
    nextOid,            \* number of the next ObjectId the store assigns
    driver,             \* mongoose.connect() attempts and the calls awaiting
    last                \* the last request (or call) and its response

vars == << variant, pc, mongoUriSet, cached, connPending, isMongoConnected,
           schemaFile, currentSchema, modelCache, stack, registeredRoutes,
           memoryStore, db, clock, nextRouter, nextOid, driver, last >>

-----------------------------------------------------------------------------
(* Bounds of the model *)

\* express.Router() objects created in one run
MaxRouters == 3
\* records one entity's collection may hold
MaxRecords == 2
\* largest value of the millisecond clock
MaxClock == 2
\* ObjectIds the store assigns in one run
MaxOids == 2
\* largest page a List request asks for
MaxPage == 2
\* entries of a document handed to the validator
MaxEntities == 2
\* mongoose.connect() calls made in one run
MaxAttempts == 3
\* calls of connectDB() whose caller has not gone on, at one time
MaxWaiting == 2

-----------------------------------------------------------------------------
(* Schema documents *)

\* A JSON value of a definition, by its kind ("none": the key is absent)
\* and its text; kind "provider" is a function called when a record is made.
Value(kind, text) == [kind |-> kind, text |-> text]
NoValue == Value("none", "")
Str(text) == Value("string", text)
Num(text) == Value("number", text)
Bool(text) == Value("boolean", text)
DateNow == Value("provider", "Date.now")

\* type "" is a definition without type; enum {} a field without enum;
\* hasMin FALSE a field without min; isNull a definition that is JSON null
Field(name, type, required) ==
    [name |-> name, isNull |-> FALSE, type |-> type, required |-> required,
     unique |-> FALSE, enum |-> {}, hasMin |-> FALSE, min |-> 0,
     default |-> NoValue]

WithUnique(f) == [f EXCEPT !.unique = TRUE]
WithEnum(f, values) == [f EXCEPT !.enum = values]
WithMin(f, n) == [f EXCEPT !.hasMin = TRUE, !.min = n]
WithDefault(f, value) == [f EXCEPT !.default = value]
NullField(name) == [Field(name, "", FALSE) EXCEPT !.isNull = TRUE]

\* backend.options: "unset" is an option the config does not give
Options(timestamps, strict) == [timestamps |-> timestamps, strict |-> strict]
NoOptions == Options("unset", "unset")

\* One entry of schema.record: the entity key and its config.  isNull marks a
\* config that is JSON null; route "" a config without route; routeIsString
\* FALSE a route that is a JSON value other than a string (a number, say).
Entity(name, route, hasBackend, hasSchema, schema) ==
    [name |-> name, isNull |-> FALSE, route |-> route, routeIsString |-> TRUE,
     hasBackend |-> hasBackend, hasSchema |-> hasSchema, schema |-> schema,
     options |-> NoOptions, hasFrontend |-> FALSE]

NullEntity(name) ==
    [name |-> name, isNull |-> TRUE, route |-> "", routeIsString |-> TRUE,
     hasBackend |-> FALSE, hasSchema |-> FALSE, schema |-> << >>,
     options |-> NoOptions, hasFrontend |-> FALSE]

\* kind "null" is JSON null, kind "object" a JSON object.
Doc(entries) == [kind |-> "object", hasRecord |-> TRUE, record |-> entries]
DocNoRecord == [kind |-> "object", hasRecord |-> FALSE, record |-> << >>]
DocNull == [kind |-> "null", hasRecord |-> FALSE, record |-> << >>]

NameEmail ==
    << Field("name", "String", TRUE), Field("email", "String", TRUE) >>
NameEmailPhone ==
    NameEmail \o << Field("phone", "String", FALSE) >>

\* The hard-coded schema each entry file starts from.
DefaultSchema(v) ==
    IF v = "vercel"
    THEN Doc(<< Entity("users", "/api/users", TRUE, TRUE, NameEmail) >>)
    ELSE IF v = "server"
    THEN Doc(<< Entity("users", "/api/users", TRUE, TRUE, NameEmailPhone) >>)
    ELSE Doc(<< [Entity("users", "/api/users", TRUE, TRUE, NameEmailPhone)
                   EXCEPT !.hasFrontend = TRUE] >>)

EntityNames(doc) == [i \in 1..Len(doc.record) |-> doc.record[i].name]


-----------------------------------------------------------------------------
(* Concrete documents the environment may supply *)

UsersV2 ==
    Entity("users", "/api/users", TRUE, TRUE,
           << Field("name", "String", TRUE), Field("age", "Number", FALSE) >>)
Orders ==
    Entity("orders", "/api/orders", TRUE, TRUE,
           << Field("id", "Number", FALSE), Field("title", "String", TRUE) >>)
\* an orders entity with a declared numeric id, a unique required title, an
\* enum, a numeric bound, a field whose type token is not a known type and
\* a date whose default is the time of the write
OrdersStrict ==
    Entity("orders", "/api/orders", TRUE, TRUE,
           << Field("id", "Number", FALSE),
              WithUnique(Field("title", "String", TRUE)),
              WithEnum(Field("status", "String", FALSE), {"new"}),
              WithMin(Field("qty", "Number", FALSE), 1),
              Field("note", "Text", FALSE),
              WithDefault(Field("placedAt", "Date", FALSE),
                          Str("Date.now")) >>)
\* an orders entity that declares no id field
OrdersLoose ==
    Entity("orders", "/api/orders", TRUE, TRUE,
           << Field("title", "String", TRUE) >>)
OrdersNoBackend == Entity("orders", "/api/orders", FALSE, FALSE, << >>)
OrdersNoSchema == Entity("orders", "/api/orders", TRUE, FALSE, << >>)
ItemsNoRoute == Entity("items", "", TRUE, TRUE, NameEmail)
ItemsBadRoute == Entity("items", "api/items", TRUE, TRUE, NameEmail)

\* request bodies of POST /api/schema/update
UpdateDocs ==
    { DocNoRecord,
      Doc(<< UsersV2 >>),
      Doc(<< Orders >>),
      Doc(<< UsersV2, Orders >>),
      Doc(<< UsersV2, OrdersNoBackend, ItemsNoRoute >>),
      Doc(<< OrdersNoSchema, UsersV2 >>),
      Doc(<< NullEntity("orders"), UsersV2 >>) }

\* states of schemaConfig.json when the process starts
FileMissing == [state |-> "missing", doc |-> DocNull]
FileGarbage == [state |-> "garbage", doc |-> DocNull]
FileJson(doc) == [state |-> "json", doc |-> doc]

StartFiles ==
    { FileMissing, FileGarbage,
      FileJson(DocNull),
      FileJson(DocNoRecord),
      FileJson(Doc(<< >>)),
      FileJson(Doc(<< UsersV2, Orders >>)),
      FileJson(Doc(<< ItemsBadRoute, OrdersNoBackend >>)) }

\* String.prototype.startsWith("/") on the routes that occur
StartsWithSlash(route) == route \in {"/api/users", "/api/orders", "/api/items"}

\* entityName.charAt(0).toUpperCase() + entityName.slice(1)
Capitalize(name) ==
    CASE name = "users"  -> "Users"
      [] name = "orders" -> "Orders"
      [] name = "items"  -> "Items"
      [] OTHER           -> name

-----------------------------------------------------------------------------
(* Schema validator *)

RECURSIVE validateEntities(_, _, _)
validateEntities(entries, i, acc) ==
    IF i > Len(entries) THEN acc
    ELSE LET c == entries[i] IN
         IF c.isNull
         THEN [acc EXCEPT !.threw = TRUE]    \* config.route of null
         ELSE
         IF c.route # "" /\ ~c.routeIsString
         THEN [acc EXCEPT !.threw = TRUE]    \* startsWith is not a function
         ELSE
         LET e1 == IF c.route = ""
                   THEN << [msg |-> "Missing route", entity |-> c.name] >>
                   ELSE IF ~StartsWithSlash(c.route)
                   THEN << [msg |-> "Route must start with /",
                            entity |-> c.name] >>
                   ELSE << >>
             e2 == IF ~c.hasBackend
                   THEN << [msg |-> "Missing backend", entity |-> c.name] >>
                   ELSE IF ~c.hasSchema
                   THEN << [msg |-> "Missing backend.schema",
                            entity |-> c.name] >>
                   ELSE << >>
             w  == IF ~c.hasFrontend
                   THEN << [msg |-> "Missing frontend", entity |-> c.name] >>
                   ELSE << >>
         IN validateEntities(entries, i + 1,
                [acc EXCEPT !.errors = @ \o e1 \o e2,
                            !.warnings = @ \o w])

\* the test of the update endpoint, which asks for a record only
validateSchemaRecordOnly(doc) ==
    [threw |-> FALSE, valid |-> doc.kind = "object" /\ doc.hasRecord,
     errors |-> << >>, warnings |-> << >>]

validateSchema(doc) ==
    IF doc.kind # "object"
    THEN [threw |-> FALSE, valid |-> FALSE,
          errors |-> << [msg |-> "Schema must be an object", entity |-> ""] >>,
          warnings |-> << >>]
    ELSE IF ~doc.hasRecord
    THEN [threw |-> FALSE, valid |-> FALSE,
          errors |-> << [msg |-> "Schema must contain a record object",
                         entity |-> ""] >>,
          warnings |-> << >>]
    ELSE LET w0 == IF Len(doc.record) = 0
                   THEN << [msg |-> "Schema has no entities defined",
                            entity |-> ""] >>
                   ELSE << >>
             r == validateEntities(doc.record, 1,
                     [threw |-> FALSE, valid |-> TRUE, errors |-> << >>,
                      warnings |-> w0])
         IN [r EXCEPT !.valid = (~r.threw /\ Len(r.errors) = 0)]

-----------------------------------------------------------------------------
(* Model registry *)

NoModel ==
    [name |-> "", fields |-> << >>, timestamps |-> TRUE, strict |-> FALSE]

\* The builders of a model: createModel of the three entry files and
\* createDynamicModel of src/backend/models/DynamicModel.js ("dynamic").
Builders == {"server", "full", "vercel", "dynamic"}

\* the type switch of the builder: tokens it knows keep their type, every
\* other token becomes String
KnownTypes(v) ==
    IF v = "dynamic"
    THEN {"String", "Number", "Boolean", "Date", "Array", "Object", "Mixed",
          "ObjectId"}
    ELSE IF v = "server"
    THEN {"String", "Number", "Boolean", "Date", "Array", "Object"}
    ELSE {"String", "Number", "Boolean", "Date", "Array"}

\* a JSON value that converts to false
Falsy(value) ==
    \/ value.kind = "none"
    \/ value = Str("")
    \/ value = Num("0")
    \/ value = Bool("false")

\* the default of the built field
resolveDefault(v, value) ==
    IF v = "vercel" THEN NoValue
    ELSE IF value = Str("Date.now") THEN DateNow
    ELSE IF v = "full" THEN (IF Falsy(value) THEN NoValue ELSE value)
    ELSE IF value = Str("true") THEN Bool("true")
    ELSE IF value = Str("false") THEN Bool("false")
    ELSE value

\* the field definition of the per-request entry file, which keeps only
\* type and required
ResolveFieldPlain(v, f) ==
    [name |-> f.name,
     type |-> IF f.type \in KnownTypes(v) THEN f.type ELSE "String",
     required |-> f.required,
     unique |-> FALSE, enum |-> {}, hasMin |-> FALSE, min |-> 0,
     default |-> NoValue]

ResolveField(v, f) ==
    [name |-> f.name,
     type |-> IF f.type \in KnownTypes(v) THEN f.type ELSE "String",
     required |-> f.required,
     unique |-> IF v = "vercel" THEN FALSE ELSE f.unique,
     enum |-> IF v = "vercel" THEN {} ELSE f.enum,
     hasMin |-> IF v = "vercel" THEN FALSE ELSE f.hasMin,
     min |-> IF v = "vercel" THEN 0 ELSE f.min,
     default |-> resolveDefault(v, f.default)]

CacheHas(cache, modelName) ==
    \E i \in 1..Len(cache) : cache[i].name = modelName

CacheGet(cache, modelName) ==
    cache[CHOOSE i \in 1..Len(cache) : cache[i].name = modelName]

\* createModel without the test of modelCache: every call builds
createModelUncached(v, c, cache) ==
    IF ~c.hasBackend \/ ~c.hasSchema
    THEN [threw |-> TRUE, model |-> NoModel, cache |-> cache]
    ELSE IF \E i \in 1..Len(c.schema) : c.schema[i].isNull
    THEN [threw |-> TRUE, model |-> NoModel, cache |-> cache]
    ELSE LET m == [name |-> Capitalize(c.name),
                   fields |-> [i \in 1..Len(c.schema) |->
                                  ResolveField(v, c.schema[i])],
                   timestamps |-> TRUE,
                   strict |-> (v = "vercel")]
         IN [threw |-> FALSE, model |-> m,
             cache |-> Append(SelectSeq(cache,
                                        LAMBDA x : x.name # m.name), m)]

\* createModel(entityName, config.backend): the cached model when there is
\* one, else a model built from the config; threw when reading the config
\* raises a TypeError (config undefined, or config.schema undefined).
createModel(v, c, cache) ==
    LET modelName == Capitalize(c.name) IN
    IF CacheHas(cache, modelName)
    THEN [threw |-> FALSE, model |-> CacheGet(cache, modelName),
          cache |-> cache]
    ELSE IF ~c.hasBackend \/ ~c.hasSchema
    THEN [threw |-> TRUE, model |-> NoModel, cache |-> cache]
    ELSE IF \E i \in 1..Len(c.schema) : c.schema[i].isNull
    THEN [threw |-> TRUE, model |-> NoModel, cache |-> cache]  \* val.type
    ELSE LET m == [name |-> modelName,
                   fields |-> [i \in 1..Len(c.schema) |->
                                  ResolveField(v, c.schema[i])],
                   timestamps |-> TRUE,
                   strict |-> (v = "vercel")]
         IN [threw |-> FALSE, model |-> m, cache |-> Append(cache, m)]

\* createDynamicModel(entityName, schemaDefinition): no cache; the options
\* of the config are the options of the mongoose.Schema
createDynamicModel(c) ==
    IF ~c.hasBackend \/ ~c.hasSchema
    THEN [threw |-> TRUE, model |-> NoModel]
    ELSE IF \E i \in 1..Len(c.schema) : c.schema[i].isNull
    THEN [threw |-> TRUE, model |-> NoModel]
    ELSE [threw |-> FALSE,
          model |-> [name |-> Capitalize(c.name),
                     fields |-> [i \in 1..Len(c.schema) |->
                                    ResolveField("dynamic", c.schema[i])],
                     timestamps |-> (c.options.timestamps # "false"),
                     strict |-> (c.options.strict = "true")]]


-----------------------------------------------------------------------------
(* Express layers and the route registry *)

\* express.Router() returned by createRoutes(entity, config.backend, Model),
\* mounted with app.use(path, router).  id tells router objects apart.
Router(c, hasModel, model, id) ==
    [kind |-> "router", method |-> "", path |-> c.route, entity |-> c.name,
     hasBackend |-> c.hasBackend, hasSchema |-> c.hasSchema,
     schema |-> c.schema, hasModel |-> hasModel, model |-> model, id |-> id]

\* app.get(path, ...) / app.post(path, ...)
SysRoute(method, path) ==
    [kind |-> "route", method |-> method, path |-> path, entity |-> "",
     hasBackend |-> FALSE, hasSchema |-> FALSE, schema |-> << >>,
     hasModel |-> FALSE, model |-> NoModel, id |-> 0]

\* app.use((req, res) => res.status(404)...)
NotFoundLayer == [SysRoute("", "") EXCEPT !.kind = "notfound"]
\* app.use((err, req, res, next) => ...)
ErrorLayer == [SysRoute("", "") EXCEPT !.kind = "error"]
\* no layer answered: Express's own final handler
NoLayer == [SysRoute("", "") EXCEPT !.kind = "none"]

\* app.use(path, router) raises a TypeError when path is undefined
appUseThrows(route) == route = ""

\* registerEntity without the test of config.route and config.backend
registerEntityUnchecked(v, connected, c, st) ==
    IF c.isNull THEN st
    ELSE LET built == IF connected THEN createModel(v, c, st.cache)
                      ELSE [threw |-> FALSE, model |-> NoModel,
                            cache |-> st.cache]
         IN IF built.threw THEN st
            ELSE IF appUseThrows(c.route)
            THEN [st EXCEPT !.cache = built.cache]
            ELSE [cache |-> built.cache,
                  stack |-> Append(st.stack,
                               Router(c, connected, built.model, st.next)),
                  routes |-> Append(st.routes,
                               [entity |-> c.name, route |-> c.route]),
                  next |-> st.next + 1]

\* One iteration of the loop of registerRoutes, with its try/catch.
\* st = [cache, stack, routes, next]
registerEntity(v, connected, c, st) ==
    IF c.isNull THEN st                      \* TypeError, caught
    ELSE IF v = "full" /\ (c.route = "" \/ ~c.hasBackend) THEN st
    ELSE LET built == IF connected THEN createModel(v, c, st.cache)
                      ELSE [threw |-> FALSE, model |-> NoModel,
                            cache |-> st.cache]
         IN IF built.threw THEN st
            ELSE IF appUseThrows(c.route)
            THEN [st EXCEPT !.cache = built.cache]
            ELSE [cache |-> built.cache,
                  stack |-> Append(st.stack,
                               Router(c, connected, built.model, st.next)),
                  routes |-> Append(st.routes,
                               [entity |-> c.name, route |-> c.route]),
                  next |-> st.next + 1]

RECURSIVE registerEntities(_, _, _, _, _)
registerEntities(v, connected, entries, i, st) ==
    IF i > Len(entries) THEN st
    ELSE registerEntities(v, connected, entries, i + 1,
                          registerEntity(v, connected, entries[i], st))

\* a registration that stops after the first entity of the document
registerRoutesFirstOnly(v, connected, schema, cache, stk, next) ==
    LET st0 == [cache |-> cache, stack |-> stk, routes |-> << >>,
                next |-> next]
    IN IF schema.kind = "null"
       THEN [threw |-> TRUE, st |-> st0]
       ELSE IF ~schema.hasRecord \/ Len(schema.record) = 0
       THEN [threw |-> FALSE, st |-> st0]
       ELSE [threw |-> FALSE,
             st |-> registerEntity(v, connected, schema.record[1], st0)]

\* registerRoutes(): clears the registry, then mounts one router per entity.
\* threw: currentSchema is null, so reading currentSchema.record raises.
registerRoutes(v, connected, schema, cache, stk, next) ==
    LET st0 == [cache |-> cache, stack |-> stk, routes |-> << >>,
                next |-> next]
    IN IF schema.kind = "null"
       THEN [threw |-> TRUE, st |-> st0]
       ELSE IF ~schema.hasRecord
       THEN [threw |-> FALSE, st |-> st0]
       ELSE [threw |-> FALSE,
             st |-> registerEntities(v, connected, schema.record, 1, st0)]

\* the system routes and final handlers each entry file mounts after the
\* first registerRoutes()
SystemLayers(v) ==
    IF v = "server"
    THEN << SysRoute("GET", "/"), SysRoute("GET", "/health"),
            SysRoute("GET", "/api/schema"), ErrorLayer, NotFoundLayer >>
    ELSE IF v = "full"
    THEN << SysRoute("GET", "/"), SysRoute("GET", "/health"),
            SysRoute("GET", "/api/schema"),
            SysRoute("POST", "/api/schema/update"),
            SysRoute("GET", "/api/debug/routes"),
            NotFoundLayer, ErrorLayer >>
    ELSE << >>

\* loadSchema(): the file's document when the file exists and parses, else
\* the schema already held
JSONparse(file) == file.doc

\* JSON.stringify applied to newSchema.record instead of newSchema
JSONstringifyRecordOnly(doc) ==
    FileJson([doc EXCEPT !.hasRecord = FALSE, !.record = << >>])

JSONstringify(doc) == FileJson(doc)

loadSchema(file, schema) ==
    IF file.state = "json" THEN JSONparse(file) ELSE schema

-----------------------------------------------------------------------------
(* Responses *)

\* A request: method, mount path (base), the rest of the path (sub: "root"
\* for "/", "id" for "/:id"), and what the operation reads of it.
Request(op, method, base, sub) ==
    [op |-> op, method |-> method, base |-> base, sub |-> sub, id |-> "",
     page |-> 1, limit |-> 0, search |-> "", body |-> [name |-> ""],
     doc |-> DocNull]

NoRequest == Request("none", "", "", "")

\* source: the store the handler worked on ("db", "memory" or "")
Response(req, status, layer, source, body) ==
    [req |-> req, status |-> status, layer |-> layer, source |-> source,
     body |-> body]

\* a response without a JSON body
NoBody == [html |-> TRUE]

Routes(reg) == [i \in 1..Len(reg) |-> reg[i].route]

-----------------------------------------------------------------------------
(* Process start *)

Variants == {"server", "full", "vercel"}

\* the module state of an entry file before its first statement runs
Loaded(variants, files) ==
    /\ variant \in variants
    /\ pc = "load"
    /\ mongoUriSet \in BOOLEAN
    /\ cached = [conn |-> FALSE, promise |-> FALSE]
    /\ connPending = FALSE
    /\ isMongoConnected = FALSE
    /\ schemaFile \in files
    /\ currentSchema = DefaultSchema(variant)
    /\ modelCache = << >>
    /\ stack = << >>
    /\ registeredRoutes = << >>
    /\ memoryStore = [e \in {"users", "orders", "items", "Users"} |-> << >>]
    /\ db = [m \in {"Users", "Orders", "Items"} |-> << >>]
    /\ clock = 1
    /\ nextRouter = 1
    /\ nextOid = 1
    /\ driver = [attempts |-> << >>, waiting |-> << >>, returned |-> 0]

\* ... with no request made yet
Start(variants, files) ==
    /\ Loaded(variants, files)
    /\ last = Response(NoRequest, 0, NoLayer, "", NoBody)

Init == Start(Variants, StartFiles)

\* Evaluation of src/backend/server.js: await connectDB(), loadSchema(),
\* registerRoutes(), then the system routes.
BootServer ==
    /\ variant = "server"
    /\ pc = "load"
    /\ \E ok \in BOOLEAN :
         LET connected == mongoUriSet /\ ok
             schema == loadSchema(schemaFile, currentSchema)
             reg == registerRoutes(variant, connected, schema, modelCache,
                                   stack, nextRouter)
         IN /\ isMongoConnected' = connected
            /\ cached' = [conn |-> connected, promise |-> connected]
            /\ currentSchema' = schema
            /\ IF reg.threw
               THEN /\ pc' = "crashed"
                    /\ UNCHANGED << modelCache, stack, registeredRoutes,
                                    nextRouter >>
               ELSE /\ pc' = "bound"
                    /\ modelCache' = reg.st.cache
                    /\ stack' = reg.st.stack \o SystemLayers(variant)
                    /\ registeredRoutes' = reg.st.routes
                    /\ nextRouter' = reg.st.next
    /\ UNCHANGED << variant, driver, mongoUriSet, connPending, schemaFile,
                    memoryStore, db, clock, nextOid, last >>

\* Evaluation of the entry file with the update endpoint: connectDB() is
\* started and not awaited, so the routes are registered before it settles.
\* Outside production app.listen's callback reads
\* Object.keys(currentSchema.record), which raises when record is absent.
BootFull ==
    /\ variant = "full"
    /\ pc = "load"
    /\ \E production \in BOOLEAN :
         LET schema == loadSchema(schemaFile, currentSchema)
             reg == registerRoutes(variant, FALSE, schema, modelCache,
                                   stack, nextRouter)
         IN /\ connPending' = mongoUriSet
            /\ currentSchema' = schema
            /\ IF reg.threw \/ (~production /\ ~schema.hasRecord)
               THEN /\ pc' = "crashed"
                    /\ UNCHANGED << modelCache, stack, registeredRoutes,
                                    nextRouter >>
               ELSE /\ pc' = "bound"
                    /\ modelCache' = reg.st.cache
                    /\ stack' = reg.st.stack \o SystemLayers(variant)
                    /\ registeredRoutes' = reg.st.routes
                    /\ nextRouter' = reg.st.next
    /\ UNCHANGED << variant, driver, mongoUriSet, cached, isMongoConnected,
                    schemaFile, memoryStore, db, clock, nextOid, last >>

\* Evaluation of the per-request entry file: only the schema is loaded.
BootVercel ==
    /\ variant = "vercel"
    /\ pc = "load"
    /\ currentSchema' = loadSchema(schemaFile, currentSchema)
    /\ pc' = "bound"
    /\ UNCHANGED << variant, driver, mongoUriSet, cached, connPending,
                    isMongoConnected, schemaFile, modelCache, stack,
                    registeredRoutes, memoryStore, db, clock, nextRouter,
                    nextOid, last >>

\* The connection attempt started at load settles: mongoose.connect resolves
\* (isMongoConnected = true) or rejects.
ConnectSettles ==
    /\ variant = "full"
    /\ pc = "bound"
    /\ connPending
    /\ connPending' = FALSE
    /\ \E ok \in BOOLEAN : isMongoConnected' = ok
    /\ UNCHANGED << variant, driver, pc, mongoUriSet, cached, schemaFile,
                    currentSchema, modelCache, stack, registeredRoutes,
                    memoryStore, db, clock, nextRouter, nextOid, last >>


-----------------------------------------------------------------------------
(* Request dispatch *)

\* the routes createRoutes puts on a router
RouterRoutes(v) ==
    IF v = "vercel"
    THEN { <<"GET", "root">>, <<"POST", "root">> }
    ELSE { <<"GET", "root">>, <<"GET", "id">>, <<"POST", "root">>,
           <<"PUT", "id">>, <<"DELETE", "id">> }

\* does this layer answer the request (a router without a matching route
\* passes the request on)
Matches(v, layer, req) ==
    CASE layer.kind = "router" ->
           layer.path = req.base /\ <<req.method, req.sub>> \in RouterRoutes(v)
      [] layer.kind = "route" ->
           layer.path = req.base /\ layer.method = req.method
           /\ req.sub = "root"
      [] layer.kind = "notfound" -> TRUE
      [] OTHER -> FALSE

\* the first layer of the stack, in mount order, that answers the request
Dispatch(v, stk, req) ==
    LET hits == { i \in 1..Len(stk) : Matches(v, stk[i], req) }
    IN IF hits = {} THEN NoLayer
       ELSE stk[CHOOSE i \in hits : \A j \in hits : i <= j]

\* the body of the catch-all 404 handler
NotFoundBody(v, reg) ==
    IF v = "server"
    THEN [success |-> FALSE, error |-> "Route not found",
          availableRoutes |-> Routes(reg)]
    ELSE [success |-> FALSE, error |-> "Not found",
          available |-> Routes(reg)]

-----------------------------------------------------------------------------
(* System routes *)

\* GET /health
healthBody(v, connected, schema, reg) ==
    IF v = "server"
    THEN [status |-> "OK",
          database |-> IF connected THEN "connected" ELSE "disconnected"]
    ELSE [status |-> "OK",
          database |-> IF connected THEN "connected" ELSE "memory",
          entities |-> EntityNames(schema),
          routes |-> Routes(reg)]

\* GET /api/schema
schemaBody(v, schema) ==
    IF v = "server"
    THEN [success |-> TRUE, schema |-> schema]
    ELSE [success |-> TRUE, data |-> schema]

\* a request answered by a system route, the 404 handler or nobody
SystemAnswer(req, layer, body) ==
    IF layer.kind = "route"
    THEN Response(req, 200, layer, "", body)
    ELSE IF layer.kind = "notfound"
    THEN Response(req, 404, layer, "",
                  NotFoundBody(variant, registeredRoutes))
    ELSE Response(req, 404, NoLayer, "", NoBody)

Serving == pc = "bound" /\ variant \in {"server", "full"}

Health ==
    /\ Serving
    /\ LET req == Request("health", "GET", "/health", "root")
       IN last' = SystemAnswer(req, Dispatch(variant, stack, req),
                     healthBody(variant, isMongoConnected, currentSchema,
                                registeredRoutes))
    /\ UNCHANGED << variant, driver, pc, mongoUriSet, cached, connPending,
                    isMongoConnected, schemaFile, currentSchema, modelCache,
                    stack, registeredRoutes, memoryStore, db, clock,
                    nextRouter, nextOid >>

GetSchema ==
    /\ Serving
    /\ LET req == Request("schema", "GET", "/api/schema", "root")
       IN last' = SystemAnswer(req, Dispatch(variant, stack, req),
                               schemaBody(variant, currentSchema))
    /\ UNCHANGED << variant, driver, pc, mongoUriSet, cached, connPending,
                    isMongoConnected, schemaFile, currentSchema, modelCache,
                    stack, registeredRoutes, memoryStore, db, clock,
                    nextRouter, nextOid >>

\* The handler of POST /api/schema/update on a body with a record: the
\* state it leaves and its response.  writeOk: fs.writeFileSync succeeded.
updateAccepted(newSchema, writeOk, connected, file, stk, next) ==
    LET reg == registerRoutes("full", connected, newSchema, << >>, stk, next)
    IN [schema |-> newSchema,
        file |-> IF writeOk THEN JSONstringify(newSchema) ELSE file,
        cache |-> reg.st.cache,
        stack |-> reg.st.stack,
        routes |-> reg.st.routes,
        next |-> reg.st.next,
        status |-> 200,
        body |-> [success |-> TRUE, message |-> "Schema updated",
                  entities |-> EntityNames(newSchema),
                  routes |-> Routes(reg.st.routes)]]

\* ... and on a body without one: the throw is caught and answered with 400.
updateRejected(schema, file, cache, stk, routes, next) ==
    [schema |-> schema, file |-> file, cache |-> cache, stack |-> stk,
     routes |-> routes, next |-> next, status |-> 400,
     body |-> [success |-> FALSE, error |-> "Missing record object"]]

\* updateSchema without the test of newSchema.record
updateSchemaUnchecked(newSchema, writeOk, connected, schema, file, cache, stk, routes, next) ==
    updateAccepted(newSchema, writeOk, connected, file, stk, next)

updateSchema(newSchema, writeOk, connected, schema, file, cache, stk, routes, next) ==
    IF ~newSchema.hasRecord
    THEN updateRejected(schema, file, cache, stk, routes, next)
    ELSE updateAccepted(newSchema, writeOk, connected, file, stk, next)

\* POST /api/schema/update
UpdateSchema ==
    /\ Serving
    /\ nextRouter <= MaxRouters
    /\ \E newSchema \in UpdateDocs, writeOk \in BOOLEAN :
         LET req == [Request("updateSchema", "POST", "/api/schema/update",
                             "root") EXCEPT !.doc = newSchema]
             layer == Dispatch(variant, stack, req)
         IN IF layer.kind # "route"
            THEN /\ last' = SystemAnswer(req, layer, NoBody)
                 /\ UNCHANGED << schemaFile, currentSchema, modelCache,
                                 stack, registeredRoutes, nextRouter >>
            ELSE LET r == updateSchema(newSchema, writeOk, isMongoConnected,
                             currentSchema, schemaFile, modelCache, stack,
                             registeredRoutes, nextRouter)
                 IN /\ currentSchema' = r.schema
                    /\ schemaFile' = r.file
                    /\ modelCache' = r.cache
                    /\ stack' = r.stack
                    /\ registeredRoutes' = r.routes
                    /\ nextRouter' = r.next
                    /\ last' = Response(req, r.status, layer, "", r.body)
    /\ UNCHANGED << variant, driver, pc, mongoUriSet, cached, connPending,
                    isMongoConnected, memoryStore, db, clock, nextOid >>


-----------------------------------------------------------------------------
(* Records and id tokens *)

\* a JavaScript object is a function from its keys; the values that occur
\* are all truthy, so a truthy read obj.key is the test that the key exists
Has(obj, key) == key \in DOMAIN obj

\* the text of an ObjectId
OidText(n) == "oid" \o ToString(n)

\* mongoose.Types.ObjectId.isValid
isValidObjectId(token) == \E n \in 1..(MaxOids + 1) : token = OidText(n)

\* !isNaN(token) and parseInt(token) on the tokens that occur
NumericTokens == {"1", "2", "3", "1.5", "1e3"}
isNaN(token) == token \notin NumericTokens
parseInt(token) ==
    CASE token = "1" -> 1 [] token = "2" -> 2 [] token = "3" -> 3
      [] token = "1.5" -> 1 [] token = "1e3" -> 1
      [] OTHER -> 0

\* request payloads and id tokens of the environment
Payloads ==
    { [name |-> "Ann", email |-> "a@x.com"],
      [name |-> "Bob"] }

IdTokens == {"1", "abc", OidText(1)}

\* payloads and id tokens for the orders entity
OrderPayloads ==
    { [title |-> "A"],
      [title |-> "B", note |-> "Ann"],
      [status |-> "bad", qty |-> 0] }
OrderUpdates == { [title |-> "A"] }
OrderTokens == {"1", "abc", OidText(1), "ORD-1"}

RequestBases == {"/api/users", "/api/orders"}

DefaultLimitServer == 100
DefaultLimitFull == 10

\* const { page = 1, limit = ... } = req.query; parseInt(limit)
LimitOf(v, req) ==
    IF req.limit # 0 THEN req.limit
    ELSE IF v = "server" THEN DefaultLimitServer ELSE DefaultLimitFull

\* Math.ceil(total / limit)
CeilDiv(total, limit) == (total + limit - 1) \div limit

\* .skip((page - 1) * limit).limit(limit), and items.slice(start, start+limit)
Paginate(seq, page, limit) ==
    LET start == (page - 1) * limit
        stop == IF start + limit < Len(seq) THEN start + limit ELSE Len(seq)
    IN SubSeq(seq, start + 1, stop)

\* .sort({ createdAt: -1 }): newest first; records created in the same
\* millisecond keep their stored order
RECURSIVE InsertByCreatedAt(_, _)
InsertByCreatedAt(sorted, r) ==
    IF sorted = << >> THEN << r >>
    ELSE IF Head(sorted).createdAt < r.createdAt
    THEN << r >> \o sorted
    ELSE << Head(sorted) >> \o InsertByCreatedAt(Tail(sorted), r)

RECURSIVE SortNewestFirst(_)
SortNewestFirst(seq) ==
    IF seq = << >> THEN << >>
    ELSE InsertByCreatedAt(SortNewestFirst(SubSeq(seq, 1, Len(seq) - 1)),
                           seq[Len(seq)])

\* positions of the records a predicate on records selects
Where(seq, P(_)) == { i \in 1..Len(seq) : P(seq[i]) }
First(S) == CHOOSE i \in S : \A j \in S : i <= j
Remove(seq, i) == SubSeq(seq, 1, i - 1) \o SubSeq(seq, i + 1, Len(seq))

\* what a handler returns: the response and the stores it leaves
Outcome(status, source, body, mem, database) ==
    [status |-> status, source |-> source, body |-> body, mem |-> mem,
     db |-> database]

\* isMongoConnected && Model
UseDb(layer) == isMongoConnected /\ layer.hasModel


-----------------------------------------------------------------------------
(* The store behind a Model (mongoose) *)

DeclaresNumberId(fields) ==
    \E i \in 1..Len(fields) : fields[i].name = "id" /\ fields[i].type = "Number"

\* Model.findById(token): positions of the records with that _id
byObjectId(coll, token) == Where(coll, LAMBDA r : r._id = token)

\* Model.findOne({ id: numericId }), numericId = !isNaN(token) ?
\* parseInt(token) : token; the ids that occur in records are numbers
byDeclaredId(coll, token) ==
    IF isNaN(token) THEN {}
    ELSE Where(coll, LAMBDA r : Has(r, "id") /\ r.id = parseInt(token))

\* casting { id: token } against a Number path fails for a non-numeric token
idCastFails(model, token) == DeclaresNumberId(model.fields) /\ isNaN(token)

\* the validator of one path that fails for a document: required on a
\* missing value, else enum or min on a present one; "" when none fails
fieldError(f, body) ==
    IF ~Has(body, f.name)
    THEN (IF f.required THEN "required" ELSE "")
    ELSE IF f.enum # {} /\ body[f.name] \notin f.enum THEN "enum"
    ELSE IF f.hasMin /\ body[f.name] < f.min THEN "min"
    ELSE ""

\* ValidationError.errors of document validation: one entry for every path
\* whose validator fails, in schema order
RECURSIVE validationErrors(_, _, _)
validationErrors(fields, i, body) ==
    IF i > Len(fields) THEN << >>
    ELSE (IF fieldError(fields[i], body) # ""
          THEN << [path |-> fields[i].name,
                   kind |-> fieldError(fields[i], body)] >>
          ELSE << >>)
         \o validationErrors(fields, i + 1, body)

\* update validators (runValidators: true): only the paths the update sets
RECURSIVE updateErrors(_, _, _)
updateErrors(fields, i, body) ==
    IF i > Len(fields) THEN << >>
    ELSE (IF Has(body, fields[i].name) /\ fieldError(fields[i], body) # ""
          THEN << [path |-> fields[i].name,
                   kind |-> fieldError(fields[i], body)] >>
          ELSE << >>)
         \o updateErrors(fields, i + 1, body)

\* two documents collide on a unique index: equal values, or both without
\* the field (the index holds null for a document without it)
sameKey(r, doc, name) ==
    IF Has(r, name) /\ Has(doc, name) THEN r[name] = doc[name]
    ELSE ~Has(r, name) /\ ~Has(doc, name)

\* keyPattern of the E11000 error writing doc raises; others: the positions
\* of the records doc is checked against; "" when no unique index is hit
duplicateKey(fields, coll, others, doc) ==
    LET hit == { i \in 1..Len(fields) :
                   /\ fields[i].unique
                   /\ \E j \in others : sameKey(coll[j], doc, fields[i].name) }
    IN IF hit = {} THEN "" ELSE fields[First(hit)].name

\* the value a literal default gives a record
Literal(value) ==
    CASE value.kind = "number"  -> (IF value.text = "0" THEN 0 ELSE 5)
      [] value.kind = "boolean" -> value.text = "true"
      [] OTHER                  -> value.text

\* the defaults of the model applied to a new document: a provider is
\* called at that moment, a literal is copied
RECURSIVE applyDefaults(_, _, _, _)
applyDefaults(fields, i, body, now) ==
    IF i > Len(fields) THEN body
    ELSE LET f == fields[i]
             given == IF f.default.kind = "none" \/ Has(body, f.name)
                      THEN body
                      ELSE body @@ [k \in {f.name} |->
                                      IF f.default.kind = "provider" THEN now
                                      ELSE Literal(f.default)]
         IN applyDefaults(fields, i + 1, given, now)

\* the document Model.create(body) stores (timestamps: true)
newDocument(body, oid, now) ==
    body @@ [_id |-> oid, createdAt |-> now, updatedAt |-> now]

\* Model.findOne({ orderId: token })
byOrderId(coll, token) ==
    Where(coll, LAMBDA r : Has(r, "orderId") /\ r.orderId = token)

\* an update that replaces the record by the body, keeping only its _id
replaceUpdate(record, body, now) ==
    [updatedAt |-> now] @@ body @@ [_id |-> record._id]

\* { ...record, ...body, updatedAt } and $set of the body with timestamps
mergeUpdate(record, body, now) == [updatedAt |-> now] @@ body @@ record

\* the resolution chain of src/backend/server.js for /:id: _id when the
\* token is a valid ObjectId, then the declared id field, then (GET of the
\* entity "orders" only: orderIdToo) the orderId field; "cast" when the
\* second lookup cannot cast the token
resolveServer(layer, coll, token, orderIdToo) ==
    LET a == IF isValidObjectId(token) THEN byObjectId(coll, token) ELSE {}
    IN IF a # {} THEN [kind |-> "hit", at |-> First(a)]
       ELSE IF idCastFails(layer.model, token)
       THEN [kind |-> "cast", at |-> 0]
       ELSE LET b == byDeclaredId(coll, token)
            IN IF b # {} THEN [kind |-> "hit", at |-> First(b)]
               ELSE LET c == IF orderIdToo /\ layer.entity = "orders"
                             THEN byOrderId(coll, token) ELSE {}
                    IN IF c # {} THEN [kind |-> "hit", at |-> First(c)]
                       ELSE [kind |-> "miss", at |-> 0]

\* ... and of the entry file with the update endpoint: findById only, which
\* cannot cast a token that is no ObjectId
resolveFull(coll, token) ==
    IF ~isValidObjectId(token) THEN [kind |-> "cast", at |-> 0]
    ELSE LET a == byObjectId(coll, token)
         IN IF a # {} THEN [kind |-> "hit", at |-> First(a)]
            ELSE [kind |-> "miss", at |-> 0]


-----------------------------------------------------------------------------
(* The five handlers createRoutes binds to one (entity, config, Model) *)

Failure(error) == [success |-> FALSE, error |-> error]

\* value.toLowerCase().includes(text.toLowerCase()) on the values and texts
\* that occur
SubstringPairs ==
    { << "A", "a" >>, << "bad", "a" >>, << "Ann", "a" >>,
      << "a@x.com", "a" >>, << "Ann", "an" >>, << "1", "1" >>,
      << "ORD-1", "1" >> }
LowerIncludes(value, text) == text = "" \/ << value, text >> \in SubstringPairs

\* the search texts the store rejects as a regular expression
RegexInvalid == {"("}

\* the values a pattern with metacharacters matches, without regard to case:
\* "." stands for any character
RegexPairs == { << "Ann", "a.n" >> }

\* { $regex: pattern, $options: "i" } on a value: a pattern without
\* metacharacters matches where the value contains it
regexTest(value, pattern) ==
    IF pattern = "a.n" THEN << value, pattern >> \in RegexPairs
    ELSE LowerIncludes(value, pattern)

\* String(v) of a field value: the keys that hold numbers
NumberKeys == {"id", "qty", "age", "createdAt", "updatedAt", "placedAt"}
TextOf(r, k) == IF k \in NumberKeys THEN ToString(r[k]) ELSE r[k]

\* the keys of config.schema whose declared type is "String"
stringFields(schema) ==
    { schema[i].name : i \in { j \in 1..Len(schema) :
                                  schema[j].type = "String" } }

\* the $or query of the search: no filter without String fields
searchQuery(schema, search, coll) ==
    IF search = "" \/ stringFields(schema) = {} THEN coll
    ELSE SelectSeq(coll, LAMBDA r :
            \E f \in stringFields(schema) :
                Has(r, f) /\ regexTest(r[f], search))

\* the filter of the memory branch: any value of the item
searchItems(search, items) ==
    IF search = "" THEN items
    ELSE SelectSeq(items, LAMBDA r :
            \E k \in DOMAIN r : LowerIncludes(TextOf(r, k), search))

\* GET /
listHandler(layer, req) ==
    LET limit == LimitOf(variant, req)
        page == req.page
    IN IF /\ UseDb(layer)
          /\ req.search \in RegexInvalid
          /\ stringFields(layer.schema) # {}
       THEN Outcome(500, "db", Failure("Regular expression is invalid"),
                    memoryStore, db)
       ELSE IF UseDb(layer)
       THEN LET coll == searchQuery(layer.schema, req.search,
                                    db[layer.model.name])
                data == Paginate(SortNewestFirst(coll), page, limit)
                total == Len(coll)
            IN Outcome(200, "db",
                 IF variant = "server"
                 THEN [success |-> TRUE, data |-> data, total |-> total,
                       pagination |-> [page |-> page, limit |-> limit,
                            totalPages |-> CeilDiv(total, limit)]]
                 ELSE [success |-> TRUE, data |-> data,
                       pagination |-> [total |-> total, page |-> page,
                            limit |-> limit,
                            totalPages |-> CeilDiv(total, limit)]],
                 memoryStore, db)
       ELSE LET items == memoryStore[layer.entity]
                filtered == searchItems(req.search, items)
            IN Outcome(200, "memory",
                 IF variant = "server"
                 THEN [success |-> TRUE, data |-> items,
                       total |-> Len(items)]
                 ELSE [success |-> TRUE,
                       data |-> Paginate(filtered, page, limit),
                       pagination |-> [total |-> Len(filtered),
                            page |-> page, limit |-> limit,
                            totalPages |-> CeilDiv(Len(filtered), limit)]],
                 memoryStore, db)

\* GET /:id
getHandler(layer, req) ==
    IF UseDb(layer)
    THEN LET coll == db[layer.model.name]
             hit == IF variant = "server"
                    THEN resolveServer(layer, coll, req.id, TRUE)
                    ELSE resolveFull(coll, req.id)
         IN IF hit.kind = "cast"
            THEN Outcome(500, "db", Failure("Cast failed"),
                         memoryStore, db)
            ELSE IF hit.kind = "miss"
            THEN Outcome(404, "db", Failure("Not found"),
                         memoryStore, db)
            ELSE Outcome(200, "db",
                         [success |-> TRUE, data |-> coll[hit.at]],
                         memoryStore, db)
    ELSE IF variant = "server"
    THEN Outcome(400, "", Failure("Database not available"),
                 memoryStore, db)
    ELSE LET items == memoryStore[layer.entity]
             found == Where(items, LAMBDA r : r._id = req.id)
         IN IF found = {}
            THEN Outcome(404, "memory", Failure("Not found"),
                         memoryStore, db)
            ELSE Outcome(200, "memory",
                         [success |-> TRUE, data |-> items[First(found)]],
                         memoryStore, db)

\* POST /
createHandler(layer, req, now, oid) ==
    IF UseDb(layer)
    THEN LET coll == db[layer.model.name]
             b1 == IF variant = "server" /\ layer.entity = "orders"
                      /\ ~Has(req.body, "orderId")
                   THEN req.body @@ [orderId |-> "ORD-" \o ToString(now)]
                   ELSE req.body
             b2 == IF variant = "server" /\ DeclaresNumberId(layer.schema)
                      /\ ~Has(b1, "id")
                   THEN b1 @@ [id |-> Len(coll) + 1]
                   ELSE b1
             b3 == applyDefaults(layer.model.fields, 1, b2, now)
             errs == validationErrors(layer.model.fields, 1, b3)
             doc == newDocument(b3, oid, now)
             dup == duplicateKey(layer.model.fields, coll, 1..Len(coll), doc)
         IN IF errs # << >>
            THEN Outcome(400, "db",
                   IF variant = "server"
                   THEN [success |-> FALSE, error |-> "Validation error",
                         details |-> errs]
                   ELSE Failure("validation failed"),
                   memoryStore, db)
            ELSE IF dup # ""
            THEN (IF variant = "server"
                  THEN Outcome(409, "db",
                         [success |-> FALSE, error |-> "Duplicate entry",
                          field |-> dup],
                         memoryStore, db)
                  ELSE Outcome(400, "db", Failure("duplicate key"),
                               memoryStore, db))
            ELSE Outcome(201, "db",
                   IF variant = "server"
                   THEN [success |-> TRUE, data |-> doc,
                         message |-> "created successfully"]
                   ELSE [success |-> TRUE, data |-> doc],
                   memoryStore,
                   [db EXCEPT ![layer.model.name] = Append(@, doc)])
    ELSE LET item == IF variant = "server"
                     THEN req.body @@ [_id |-> ToString(now)]
                     ELSE [createdAt |-> now, updatedAt |-> now]
                          @@ req.body @@ [_id |-> ToString(now)]
         IN Outcome(201, "memory", [success |-> TRUE, data |-> item],
                    [memoryStore EXCEPT ![layer.entity] = Append(@, item)],
                    db)

\* what the catch of PUT /:id answers for a ValidationError
updateInvalid(errs) ==
    IF variant = "server"
    THEN Outcome(400, "db",
           [success |-> FALSE, error |-> "Validation error",
            details |-> errs],
           memoryStore, db)
    ELSE Outcome(400, "db", Failure("validation failed"), memoryStore, db)

\* PUT /:id
updateHandler(layer, req, now) ==
    IF UseDb(layer)
    THEN LET coll == db[layer.model.name]
             hit == IF variant = "server"
                    THEN resolveServer(layer, coll, req.id, FALSE)
                    ELSE resolveFull(coll, req.id)
             errs == updateErrors(layer.model.fields, 1, req.body)
         IN IF isValidObjectId(req.id) /\ errs # << >>
            THEN updateInvalid(errs)
            ELSE IF hit.kind = "cast"
            THEN IF variant = "server"
                 THEN Outcome(500, "db", Failure("Cast failed"),
                              memoryStore, db)
                 ELSE Outcome(400, "db", Failure("Cast failed"),
                              memoryStore, db)
            ELSE IF errs # << >>
            THEN updateInvalid(errs)
            ELSE IF hit.kind = "miss"
            THEN Outcome(404, "db", Failure("Not found"),
                         memoryStore, db)
            ELSE LET doc == mergeUpdate(coll[hit.at], req.body, now)
                     dup == duplicateKey(
                               SelectSeq(layer.model.fields,
                                  LAMBDA f : Has(req.body, f.name)),
                               coll, (1..Len(coll)) \ {hit.at}, doc)
                 IN IF dup # ""
                    THEN Outcome(IF variant = "server" THEN 500 ELSE 400,
                                 "db", Failure("duplicate key"),
                                 memoryStore, db)
                    ELSE Outcome(200, "db",
                           IF variant = "server"
                           THEN [success |-> TRUE, data |-> doc,
                                 message |-> "updated successfully"]
                           ELSE [success |-> TRUE, data |-> doc],
                           memoryStore,
                           [db EXCEPT ![layer.model.name][hit.at] = doc])
    ELSE IF variant = "server"
    THEN Outcome(400, "", Failure("Database not available"),
                 memoryStore, db)
    ELSE LET items == memoryStore[layer.entity]
             found == Where(items, LAMBDA r : r._id = req.id)
         IN IF found = {}
            THEN Outcome(404, "memory", Failure("Not found"),
                         memoryStore, db)
            ELSE LET item == mergeUpdate(items[First(found)], req.body, now)
                 IN Outcome(200, "memory",
                      [success |-> TRUE, data |-> item],
                      [memoryStore EXCEPT ![layer.entity][First(found)] =
                          item],
                      db)

\* DELETE /:id
deleteHandler(layer, req) ==
    IF UseDb(layer)
    THEN LET coll == db[layer.model.name]
             hit == IF variant = "server"
                    THEN resolveServer(layer, coll, req.id, FALSE)
                    ELSE resolveFull(coll, req.id)
         IN IF hit.kind = "cast"
            THEN Outcome(500, "db", Failure("Cast failed"),
                         memoryStore, db)
            ELSE IF hit.kind = "miss"
            THEN Outcome(404, "db", Failure("Not found"),
                         memoryStore, db)
            ELSE Outcome(200, "db",
                      IF variant = "server"
                      THEN [success |-> TRUE,
                            message |-> "deleted successfully",
                            data |-> coll[hit.at]]
                      ELSE [success |-> TRUE, message |-> "Deleted"],
                      memoryStore,
                      [db EXCEPT ![layer.model.name] = Remove(@, hit.at)])
    ELSE IF variant = "server"
    THEN Outcome(400, "", Failure("Database not available"),
                 memoryStore, db)
    ELSE LET items == memoryStore[layer.entity]
             kept == SelectSeq(items, LAMBDA r : r._id # req.id)
         IN IF Len(kept) = Len(items)
            THEN Outcome(404, "memory", Failure("Not found"),
                         memoryStore, db)
            ELSE Outcome(200, "memory",
                      [success |-> TRUE, message |-> "Deleted"],
                      [memoryStore EXCEPT ![layer.entity] = kept], db)


-----------------------------------------------------------------------------
(* Entity requests *)

\* A request no router answers ends at the 404 handler.
Unrouted(req, layer) == last' = SystemAnswer(req, layer, NoBody)

List(bases, pages, limits, searches) ==
    /\ Serving
    /\ \E base \in bases, page \in pages, limit \in limits,
          search \in searches :
         LET req == [Request("list", "GET", base, "root")
                       EXCEPT !.page = page, !.limit = limit,
                              !.search = search]
             layer == Dispatch(variant, stack, req)
         IN IF layer.kind = "router"
            THEN LET r == listHandler(layer, req)
                 IN last' = Response(req, r.status, layer, r.source, r.body)
            ELSE Unrouted(req, layer)
    /\ UNCHANGED << variant, driver, pc, mongoUriSet, cached, connPending,
                    isMongoConnected, schemaFile, currentSchema, modelCache,
                    stack, registeredRoutes, memoryStore, db, clock,
                    nextRouter, nextOid >>

GetById(bases, tokens) ==
    /\ Serving
    /\ \E base \in bases, token \in tokens :
         LET req == [Request("get", "GET", base, "id") EXCEPT !.id = token]
             layer == Dispatch(variant, stack, req)
         IN IF layer.kind = "router"
            THEN LET r == getHandler(layer, req)
                 IN last' = Response(req, r.status, layer, r.source, r.body)
            ELSE Unrouted(req, layer)
    /\ UNCHANGED << variant, driver, pc, mongoUriSet, cached, connPending,
                    isMongoConnected, schemaFile, currentSchema, modelCache,
                    stack, registeredRoutes, memoryStore, db, clock,
                    nextRouter, nextOid >>

\* room left in the collection the router writes to
HasRoom(layer) ==
    IF UseDb(layer)
    THEN Len(db[layer.model.name]) < MaxRecords /\ nextOid <= MaxOids
    ELSE Len(memoryStore[layer.entity]) < MaxRecords

Create(bases, bodies) ==
    /\ Serving
    /\ \E base \in bases, body \in bodies, now \in clock..MaxClock :
         LET req == [Request("create", "POST", base, "root")
                       EXCEPT !.body = body]
             layer == Dispatch(variant, stack, req)
         IN IF layer.kind = "router"
            THEN /\ HasRoom(layer)
                 /\ LET r == createHandler(layer, req, now, OidText(nextOid))
                    IN /\ last' = Response(req, r.status, layer, r.source,
                                           r.body)
                       /\ memoryStore' = r.mem
                       /\ db' = r.db
                       /\ nextOid' = IF r.db # db THEN nextOid + 1
                                     ELSE nextOid
                       /\ clock' = now
            ELSE /\ Unrouted(req, layer)
                 /\ UNCHANGED << memoryStore, db, nextOid, clock >>
    /\ UNCHANGED << variant, driver, pc, mongoUriSet, cached, connPending,
                    isMongoConnected, schemaFile, currentSchema, modelCache,
                    stack, registeredRoutes, nextRouter >>

Update(bases, tokens, bodies) ==
    /\ Serving
    /\ \E base \in bases, token \in tokens, body \in bodies,
          now \in clock..MaxClock :
         LET req == [Request("update", "PUT", base, "id")
                       EXCEPT !.id = token, !.body = body]
             layer == Dispatch(variant, stack, req)
         IN IF layer.kind = "router"
            THEN LET r == updateHandler(layer, req, now)
                 IN /\ last' = Response(req, r.status, layer, r.source,
                                        r.body)
                    /\ memoryStore' = r.mem
                    /\ db' = r.db
                    /\ clock' = now
            ELSE /\ Unrouted(req, layer)
                 /\ UNCHANGED << memoryStore, db, clock >>
    /\ UNCHANGED << variant, driver, pc, mongoUriSet, cached, connPending,
                    isMongoConnected, schemaFile, currentSchema, modelCache,
                    stack, registeredRoutes, nextRouter, nextOid >>

Delete(bases, tokens) ==
    /\ Serving
    /\ \E base \in bases, token \in tokens :
         LET req == [Request("delete", "DELETE", base, "id")
                       EXCEPT !.id = token]
             layer == Dispatch(variant, stack, req)
         IN IF layer.kind = "router"
            THEN LET r == deleteHandler(layer, req)
                 IN /\ last' = Response(req, r.status, layer, r.source,
                                        r.body)
                    /\ memoryStore' = r.mem
                    /\ db' = r.db
            ELSE /\ Unrouted(req, layer)
                 /\ UNCHANGED << memoryStore, db >>
    /\ UNCHANGED << variant, driver, pc, mongoUriSet, cached, connPending,
                    isMongoConnected, schemaFile, currentSchema, modelCache,
                    stack, registeredRoutes, clock, nextRouter, nextOid >>

-----------------------------------------------------------------------------
(* The per-request handler *)

\* the loop of handler(): no try/catch, the first TypeError ends it
RECURSIVE vercelMount(_, _, _, _)
vercelMount(connected, entries, i, st) ==
    IF i > Len(entries) \/ st.threw THEN st
    ELSE LET c == entries[i] IN
         IF c.isNull THEN [st EXCEPT !.threw = TRUE]
         ELSE LET built == IF connected
                           THEN createModel("vercel", c, st.cache)
                           ELSE [threw |-> FALSE, model |-> NoModel,
                                 cache |-> st.cache]
              IN IF built.threw THEN [st EXCEPT !.threw = TRUE]
                 ELSE IF appUseThrows(c.route)
                 THEN [st EXCEPT !.threw = TRUE, !.cache = built.cache]
                 ELSE vercelMount(connected, entries, i + 1,
                        [threw |-> FALSE, cache |-> built.cache,
                         stack |-> Append(st.stack,
                              Router(c, connected, built.model, st.next)),
                         next |-> st.next + 1])

\* what becomes of a request whose async handler rejects and has no catch:
\* no response at all (status 0), or the 500 page of the framework's own
\* error handler, depending on the version of express that is installed
UnhandledRejection == {0, 500}

\* the two handlers of the per-request entry file: GET / and POST /, neither
\* with a try/catch
vercelHandler(layer, req, connected, now, oid, rejection) ==
    IF req.op = "list"
    THEN (IF connected /\ layer.hasModel
          THEN Outcome(200, "db",
                 [success |-> TRUE, data |-> db[layer.model.name]],
                 memoryStore, db)
          ELSE Outcome(200, "memory",
                 [success |-> TRUE, data |-> memoryStore[layer.entity]],
                 memoryStore, db))
    ELSE IF connected /\ layer.hasModel
    THEN LET doc == newDocument(req.body, oid, now)
         IN IF validationErrors(layer.model.fields, 1, req.body) # << >>
            THEN Outcome(rejection, "db", NoBody, memoryStore, db)
            ELSE Outcome(201, "db", [success |-> TRUE, data |-> doc],
                   memoryStore,
                   [db EXCEPT ![layer.model.name] = Append(@, doc)])
    ELSE LET item == req.body @@ [_id |-> ToString(now)]
         IN Outcome(201, "memory", [success |-> TRUE, data |-> item],
                    [memoryStore EXCEPT ![layer.entity] = Append(@, item)],
                    db)

VercelReads == { Request("list", "GET", base, "root") : base \in RequestBases }

VercelWrites ==
    { [Request("create", "POST", "/api/users", "root") EXCEPT !.body = body] :
      body \in Payloads }

\* handler(req, res) after await connectDB(): mount a router per entity with
\* a Model when isMongoConnected, then hand the request to the app.
VercelServe(req, connected, now, rejection) ==
    LET st0 == [threw |-> currentSchema.kind = "null"
                          \/ ~currentSchema.hasRecord,
                cache |-> modelCache, stack |-> stack,
                next |-> nextRouter]
        st == vercelMount(connected, currentSchema.record, 1, st0)
        layer == Dispatch(variant, st.stack, req)
        r == vercelHandler(layer, req, connected, now,
                           OidText(nextOid), rejection)
        answered == ~st.threw /\ layer.kind = "router"
    IN /\ (answered /\ req.op = "create") =>
            IF connected /\ layer.hasModel
            THEN Len(db[layer.model.name]) < MaxRecords
                 /\ nextOid <= MaxOids
            ELSE Len(memoryStore[layer.entity]) < MaxRecords
       /\ modelCache' = st.cache
       /\ stack' = st.stack
       /\ nextRouter' = st.next
       /\ last' =
            IF st.threw THEN Response(req, 500, NoLayer, "", NoBody)
            ELSE IF layer.kind # "router"
            THEN Response(req, 404, NoLayer, "", NoBody)
            ELSE Response(req, r.status, layer, r.source, r.body)
       /\ memoryStore' = IF answered THEN r.mem ELSE memoryStore
       /\ db' = IF answered THEN r.db ELSE db
       /\ nextOid' = IF answered /\ r.db # db THEN nextOid + 1
                     ELSE nextOid
       /\ clock' = IF req.op = "create" THEN now ELSE clock

\* handler(req, res): await connectDB(), then the rest of the handler
VercelInvoke(requests) ==
    /\ variant = "vercel"
    /\ pc = "bound"
    /\ nextRouter <= MaxRouters
    /\ \E req \in requests, ok \in BOOLEAN, now \in clock..MaxClock,
          rejection \in UnhandledRejection :
         LET connected == IF ~mongoUriSet THEN isMongoConnected
                          ELSE IF cached.conn THEN TRUE ELSE ok
         IN /\ isMongoConnected' = connected
            /\ cached' = IF mongoUriSet
                         THEN [conn |-> connected, promise |-> connected]
                         ELSE cached
            /\ VercelServe(req, connected, now, rejection)
    /\ UNCHANGED << variant, driver, pc, mongoUriSet, connPending, schemaFile,
                    currentSchema, registeredRoutes >>

-----------------------------------------------------------------------------
(* Specifications *)

\* The binding engine: start, connection, schema update, and the requests
\* that read.
Next ==
    \/ BootServer
    \/ BootFull
    \/ BootVercel
    \/ ConnectSettles
    \/ Health
    \/ GetSchema
    \/ UpdateSchema
    \/ List(RequestBases, {1}, {0}, {""})
    \/ GetById(RequestBases, {"1"})
    \/ VercelInvoke(VercelReads)

Spec == Init /\ [][Next]_vars

\* The entity operations on the default schema.
InitCrud ==
    /\ Init
    /\ variant \in {"server", "full"}
    /\ schemaFile = FileMissing

NextCrud ==
    \/ BootServer
    \/ BootFull
    \/ ConnectSettles
    \/ List({"/api/users"}, 1..MaxPage, {0, 1}, {""})
    \/ GetById({"/api/users"}, IdTokens)
    \/ Create({"/api/users"}, Payloads)
    \/ Update({"/api/users"}, IdTokens, Payloads)
    \/ Delete({"/api/users"}, IdTokens)

SpecCrud == InitCrud /\ [][NextCrud]_vars

\* the search texts of List: none, a text without metacharacters, a text
\* that is a pattern, and a text that is no regular expression
SearchTexts == {"", "a", "a.n", "("}

InitSearch == Start({"server"}, {FileMissing})

NextSearch ==
    \/ BootServer
    \/ List({"/api/users"}, {1}, {0}, SearchTexts)
    \/ Create({"/api/users"}, Payloads)

SpecSearch == InitSearch /\ [][NextSearch]_vars

\* payloads of Create without an id and with an id of their own
IdPayloads == {[title |-> "A"], [title |-> "B", id |-> 2]}

InitIds == Start({"server"}, {FileJson(Doc(<< Orders >>))})

NextIds ==
    \/ BootServer
    \/ List({"/api/orders"}, {1}, {0}, {""})
    \/ GetById({"/api/orders"}, NumericTokens)
    \/ Create({"/api/orders"}, IdPayloads)
    \/ Delete({"/api/orders"}, NumericTokens)

SpecIds == InitIds /\ [][NextIds]_vars

\* a schema with two entities whose names differ in the case of the first
\* letter
UsersTwice ==
    Doc(<< Entity("users", "/api/users", TRUE, TRUE, NameEmail),
           Entity("Users", "/api/items", TRUE, TRUE, NameEmail) >>)

InitNames == Start({"server"}, {FileJson(UsersTwice)})

NextNames ==
    \/ BootServer
    \/ List({"/api/users", "/api/items"}, {1}, {0}, {""})
    \/ GetById({"/api/users", "/api/items"}, IdTokens)
    \/ Create({"/api/users", "/api/items"}, Payloads)
    \/ Delete({"/api/users", "/api/items"}, IdTokens)

SpecNames == InitNames /\ [][NextNames]_vars

\* src/backend/server.js serving an orders entity read from the schema file.
InitStore ==
    Start({"server"},
          {FileJson(Doc(<< OrdersStrict >>)), FileJson(Doc(<< OrdersLoose >>))})

NextStore ==
    \/ BootServer
    \/ List({"/api/orders"}, {1}, {0}, {"", "an"})
    \/ GetById({"/api/orders"}, OrderTokens)
    \/ Create({"/api/orders"}, OrderPayloads)
    \/ Update({"/api/orders"}, OrderTokens, OrderUpdates)
    \/ Delete({"/api/orders"}, OrderTokens)

SpecStore == InitStore /\ [][NextStore]_vars

\* The schema validator applied to documents of at most MaxEntities entries.
EntityKeys == << "users", "orders", "items" >>

\* the configs an entry can hold: null, or an object with or without a
\* route (a string with or without the leading "/", or the number 5) and
\* with or without backend and backend.schema (empty or not)
ValidatorRoutes ==
    { << "", TRUE >>, << "api/items", TRUE >>, << "/api/items", TRUE >>,
      << "5", FALSE >> }

ValidatorConfigs(name) ==
    {NullEntity(name)} \cup
    { [Entity(name, route[1], backend # "none", backend \in {"empty", "fields"},
              IF backend = "fields" THEN NameEmail ELSE << >>)
         EXCEPT !.routeIsString = route[2]] :
      route \in ValidatorRoutes,
      backend \in {"none", "noschema", "empty", "fields"} }

\* the records of n entries, keyed EntityKeys[1] .. EntityKeys[n]
RECURSIVE ValidatorRecords(_)
ValidatorRecords(n) ==
    IF n = 0 THEN { << >> }
    ELSE { Append(entries, c) : entries \in ValidatorRecords(n - 1),
                                c \in ValidatorConfigs(EntityKeys[n]) }

ValidatorDocs ==
    {DocNull, DocNoRecord} \cup
    { Doc(entries) : entries \in UNION { ValidatorRecords(n) :
                                            n \in 0..MaxEntities } }

\* a call of validateSchema(schema) about to be made
InitValidate ==
    /\ Loaded({"server"}, {FileMissing})
    /\ \E doc \in ValidatorDocs :
          last = Response([Request("validate", "", "", "") EXCEPT !.doc = doc],
                          0, NoLayer, "", NoBody)

\* validateSchema(schema)
Validate ==
    /\ last.req.op = "validate" /\ last.body = NoBody
    /\ last' = [last EXCEPT !.body = validateSchema(last.req.doc)]
    /\ UNCHANGED << variant, driver, pc, mongoUriSet, cached, connPending,
                    isMongoConnected, schemaFile, currentSchema, modelCache,
                    stack, registeredRoutes, memoryStore, db, clock,
                    nextRouter, nextOid >>

NextValidate == Validate

SpecValidate == InitValidate /\ [][NextValidate]_vars

\* The model builders applied to an entity of one field.
TypeTokens ==
    {"String", "Number", "Boolean", "Date", "Array", "Object", "Mixed",
     "ObjectId"}

\* the definitions of a field: null, or an object with a type token of the
\* vocabulary, another token ("Text") or no type, and with or without a
\* default
BuildDefaults ==
    {NoValue, Str("Date.now"), Str("true"), Str("false"), Str("x"), Num("0"),
     Num("5"), Bool("true")}

BuildFields ==
    {NullField("f")} \cup
    { WithDefault(Field("f", type, required), value) :
        type \in TypeTokens \cup {"Text", ""},
        required \in BOOLEAN,
        value \in BuildDefaults }

BuildConfigs ==
    { [Entity("items", "/api/items", TRUE, TRUE, << f >>)
         EXCEPT !.options = Options(timestamps, strict)] :
      f \in BuildFields,
      timestamps \in {"unset", "true", "false"},
      strict \in {"unset", "true", "false"} }

\* a call of the builder about to be made
InitBuild ==
    /\ Loaded(Builders, {FileMissing})
    /\ \E c \in BuildConfigs :
          last = Response([Request("build", "", "", "")
                             EXCEPT !.doc = Doc(<< c >>)],
                          0, NoLayer, "", NoBody)

\* createModel(entityName, config.backend) of an entry file, or
\* createDynamicModel(entityName, schemaDefinition)
Build ==
    /\ last.req.op = "build" /\ last.body = NoBody
    /\ LET c == last.req.doc.record[1]
           r == IF variant = "dynamic" THEN createDynamicModel(c)
                ELSE createModel(variant, c, modelCache)
       IN /\ last' = [last EXCEPT !.body = [threw |-> r.threw,
                                            model |-> r.model]]
          /\ modelCache' = IF variant = "dynamic" THEN modelCache
                           ELSE r.cache
    /\ UNCHANGED << variant, driver, pc, mongoUriSet, cached, connPending,
                    isMongoConnected, schemaFile, currentSchema, stack,
                    registeredRoutes, memoryStore, db, clock, nextRouter,
                    nextOid >>

NextBuild == Build

SpecBuild == InitBuild /\ [][NextBuild]_vars

\* The per-request entry file serving the default schema.
InitVercel == Start({"vercel"}, {FileMissing})

NextVercel ==
    \/ BootVercel
    \/ VercelInvoke(VercelReads \cup VercelWrites)

SpecVercel == InitVercel /\ [][NextVercel]_vars

\* the configs createModel is called with: two entity names, each with two
\* field lists, and configs whose reading raises
CacheConfigs ==
    {Entity("users", "/api/users", TRUE, TRUE, NameEmail),
     Entity("users", "/api/users", TRUE, TRUE, NameEmailPhone),
     Entity("users", "/api/users", TRUE, FALSE, << >>),
     Orders,
     OrdersStrict,
     Entity("orders", "/api/orders", TRUE, TRUE, << NullField("title") >>)}

InitCache == Start(Variants, {FileMissing})

\* one call createModel(entityName, config.backend)
GetModel(configs) ==
    /\ \E c \in configs :
          LET r == createModel(variant, c, modelCache)
          IN /\ last' = Response([Request("createModel", "", "", "")
                                    EXCEPT !.doc = Doc(<< c >>)],
                                 0, NoLayer, "",
                                 [threw |-> r.threw, model |-> r.model])
             /\ modelCache' = r.cache
    /\ UNCHANGED << variant, driver, pc, mongoUriSet, cached, connPending,
                    isMongoConnected, schemaFile, currentSchema, stack,
                    registeredRoutes, memoryStore, db, clock, nextRouter,
                    nextOid >>

\* Object.keys(modelCache).forEach((k) => delete modelCache[k]) of the
\* update endpoint; the createModel calls of the registerRoutes() that
\* follows it are GetModel steps
ClearCache ==
    /\ variant = "full"
    /\ modelCache' = << >>
    /\ last' = Response(Request("clearCache", "", "", ""), 0, NoLayer, "",
                        NoBody)
    /\ UNCHANGED << variant, driver, pc, mongoUriSet, cached, connPending,
                    isMongoConnected, schemaFile, currentSchema, stack,
                    registeredRoutes, memoryStore, db, clock, nextRouter,
                    nextOid >>

NextCache == GetModel(CacheConfigs) \/ ClearCache

SpecCache == InitCache /\ [][NextCache]_vars

\* connectDB() without the test of cached.promise: every call that finds no
\* connection starts an attempt
connectDBNoReuse(v, uriSet, c, d) ==
    IF ~uriSet
    THEN [returned |-> TRUE, value |-> FALSE, cached |-> c, driver |-> d]
    ELSE IF v # "full" /\ c.conn
    THEN [returned |-> TRUE, value |-> TRUE, cached |-> c, driver |-> d]
    ELSE LET atts == Append(d.attempts, "pending")
         IN [returned |-> FALSE, value |-> FALSE,
             cached |-> IF v = "full" THEN c ELSE [c EXCEPT !.promise = TRUE],
             driver |-> [d EXCEPT !.attempts = atts,
                                    !.waiting = Append(@, Len(atts))]]

\* connectDB() up to its await: false without MONGODB_URI, true when
\* cached.conn is set, else mongoose.connect() is called unless cached.promise
\* holds an attempt, and the call awaits cached.promise (the attempt started
\* last).  The entry file with the update endpoint has no cache: its
\* connectDB calls mongoose.connect() and awaits that.
connectDB(v, uriSet, c, d) ==
    IF ~uriSet
    THEN [returned |-> TRUE, value |-> FALSE, cached |-> c, driver |-> d]
    ELSE IF v # "full" /\ c.conn
    THEN [returned |-> TRUE, value |-> TRUE, cached |-> c, driver |-> d]
    ELSE LET atts == IF v = "full" \/ ~c.promise
                     THEN Append(d.attempts, "pending")
                     ELSE d.attempts
         IN [returned |-> FALSE, value |-> FALSE,
             cached |-> IF v = "full" THEN c ELSE [c EXCEPT !.promise = TRUE],
             driver |-> [d EXCEPT !.attempts = atts,
                                    !.waiting = Append(@, Len(atts))]]

\* the calls that await attempt i
Awaiting(d, i) == { j \in 1..Len(d.waiting) : d.waiting[j] = i }

\* connectDB() after its await, for every call that awaits attempt i: the
\* try branch sets cached.conn, the catch branch clears cached.promise
resumeConnectDB(v, c, d, i, ok) ==
    [cached |-> IF v = "full" \/ Awaiting(d, i) = {} THEN c
                ELSE IF ok THEN [c EXCEPT !.conn = TRUE]
                ELSE [c EXCEPT !.promise = FALSE],
     driver |-> [d EXCEPT !.attempts[i] = IF ok THEN "ok" ELSE "failed",
                          !.waiting = SelectSeq(@, LAMBDA a : a # i)]]

NoCall == [returned |-> FALSE, value |-> FALSE, resumed |-> 0]

InitConnect ==
    /\ Loaded(Variants, {FileMissing})
    /\ last = Response(NoRequest, 0, NoLayer, "", NoCall)

\* a call of connectDB(): the one call of the module evaluation of an entry
\* file that serves from a process, or the call of one invocation of the
\* per-request handler
ConnectCall ==
    /\ IF variant = "vercel" THEN pc = "bound" ELSE pc = "load"
    /\ LET r == connectDB(variant, mongoUriSet, cached, driver)
       IN /\ Len(r.driver.attempts) <= MaxAttempts
          /\ Len(driver.waiting) + driver.returned < MaxWaiting
          /\ cached' = r.cached
          /\ driver' = IF r.returned /\ variant = "vercel"
                       THEN [r.driver EXCEPT !.returned = @ + 1]
                       ELSE r.driver
          /\ isMongoConnected' = IF r.returned /\ r.value THEN TRUE
                                 ELSE isMongoConnected
          /\ last' = Response(Request("connectDB", "", "", ""), 0, NoLayer,
                              "", [returned |-> r.returned,
                                   value |-> r.value, resumed |-> 0])
    /\ pc' = IF variant = "vercel" THEN pc ELSE "connecting"
    /\ UNCHANGED << variant, mongoUriSet, connPending, schemaFile,
                    currentSchema, modelCache, stack, registeredRoutes,
                    memoryStore, db, clock, nextRouter, nextOid >>

\* a connection attempt settles and the calls that await it return, in one
\* run of the microtask queue
AttemptSettles ==
    /\ \E i \in 1..Len(driver.attempts), ok \in BOOLEAN :
          /\ driver.attempts[i] = "pending"
          /\ LET r == resumeConnectDB(variant, cached, driver, i, ok)
             IN /\ cached' = r.cached
                /\ driver' = IF variant = "vercel"
                             THEN [r.driver EXCEPT
                                     !.returned =
                                        @ + Cardinality(Awaiting(driver, i))]
                             ELSE r.driver
                /\ isMongoConnected' = IF ok THEN TRUE ELSE isMongoConnected
                /\ last' = Response(Request("connectDB", "", "", ""), 0,
                                    NoLayer, "",
                                    [returned |-> TRUE, value |-> ok,
                                     resumed |->
                                       Cardinality(Awaiting(driver, i))])
    /\ UNCHANGED << variant, pc, mongoUriSet, connPending, schemaFile,
                    currentSchema, modelCache, stack, registeredRoutes,
                    memoryStore, db, clock, nextRouter, nextOid >>

\* an invocation of the per-request handler whose connectDB() returned goes
\* on: it reads isMongoConnected, mounts the routers and serves its request
HandlerContinues(requests) ==
    /\ variant = "vercel"
    /\ driver.returned > 0
    /\ nextRouter <= MaxRouters
    /\ \E req \in requests, now \in clock..MaxClock,
          rejection \in UnhandledRejection :
         VercelServe(req, isMongoConnected, now, rejection)
    /\ driver' = [driver EXCEPT !.returned = @ - 1]
    /\ UNCHANGED << variant, pc, mongoUriSet, cached, connPending,
                    isMongoConnected, schemaFile, currentSchema,
                    registeredRoutes >>

NextConnect ==
    \/ BootVercel
    \/ ConnectCall
    \/ AttemptSettles
    \/ HandlerContinues(VercelReads)

SpecConnect == InitConnect /\ [][NextConnect]_vars




-----------------------------------------------------------------------------
(* Properties of the binding engine *)

IsEntityOp(op) == op \in {"list", "get", "create", "update", "delete"}

\* the per-entity completeness test of registerRoutes
CompleteEntry(c) == ~c.isNull /\ c.route # "" /\ c.hasBackend

\* the routers the latest registerRoutes() created
CurrentRouterIds == (nextRouter - Len(registeredRoutes))..(nextRouter - 1)

RoutersOf(entity) ==
    { i \in 1..Len(stack) :
        stack[i].kind = "router" /\ stack[i].entity = entity }

\* the last request was an entity request answered by a router
RouterAnswered == IsEntityOp(last.req.op) /\ last.layer.kind = "router"

\* C1: a request is answered by an entity's router only while that entity
\* is in the current schema with the route the router is mounted at; after
\* an update no route of a dropped entity is answered by its router.
C1_DroppedRouteSilent ==
    (variant = "full" /\ RouterAnswered) =>
        \E i \in 1..Len(currentSchema.record) :
            /\ currentSchema.record[i].name = last.layer.entity
            /\ currentSchema.record[i].route = last.layer.path

\* C2: a request to the route of a registered entity that a router answers
\* is answered by the router the latest registerRoutes() built, never by
\* one built from an earlier schema.
C2_NoStaleRouter ==
    (variant = "full" /\ RouterAnswered
       /\ \E k \in 1..Len(registeredRoutes) :
             registeredRoutes[k].route = last.req.base) =>
        last.layer.id \in CurrentRouterIds

\* C3: a CRUD request to the route of an entity of the current schema that
\* has a route and a backend is answered by that entity's router, not by
\* the catch-all 404 handler.
C3_NewEntityServed ==
    (variant = "full" /\ pc = "bound" /\ IsEntityOp(last.req.op)) =>
        \A i \in 1..Len(currentSchema.record) :
            (CompleteEntry(currentSchema.record[i])
               /\ currentSchema.record[i].route = last.req.base) =>
                (last.layer.kind = "router"
                   /\ last.layer.entity = currentSchema.record[i].name)

\* [entity, route] of the entries that pass the completeness test
RECURSIVE CompleteEntries(_, _)
CompleteEntries(entries, i) ==
    IF i > Len(entries) THEN << >>
    ELSE (IF CompleteEntry(entries[i])
          THEN << [entity |-> entries[i].name, route |-> entries[i].route] >>
          ELSE << >>) \o CompleteEntries(entries, i + 1)

\* ... and whose Model can be had when the store is connected: the config
\* has backend.schema, or an earlier entry of the document already built a
\* Model of the same name (built: the model names built so far)
RECURSIVE BindableEntries(_, _, _, _)
BindableEntries(entries, i, connected, built) ==
    IF i > Len(entries) THEN << >>
    ELSE LET c == entries[i]
             ok == CompleteEntry(c)
                   /\ (connected =>
                         (c.hasSchema \/ Capitalize(c.name) \in built))
         IN (IF ok THEN << [entity |-> c.name, route |-> c.route] >>
             ELSE << >>)
            \o BindableEntries(entries, i + 1, connected,
                 IF ok /\ connected THEN built \cup {Capitalize(c.name)}
                 ELSE built)

\* a step of POST /api/schema/update that is answered with success
UpdateAcceptedStep ==
    UpdateSchema /\ variant = "full" /\ last'.req.op = "updateSchema"
    /\ last'.status = 200

C5_OneRouterPerEntity ==
    \A e \in {"users", "orders", "items"} : Cardinality(RoutersOf(e)) <= 1

\* C6: an update whose body has no record is answered 400 with an error
\* message and leaves the schema, the model cache, the route registry, the
\* mounted routers and the configuration file unchanged.
C6_RejectedUpdateChangesNothing ==
    [][(UpdateSchema /\ variant = "full"
          /\ last'.req.op = "updateSchema" /\ ~last'.req.doc.hasRecord) =>
         (/\ last'.status = 400
          /\ last'.body.success = FALSE
          /\ "error" \in DOMAIN last'.body
          /\ UNCHANGED << currentSchema, modelCache, registeredRoutes,
                          stack, schemaFile >>)]_vars

C6_Witness ==
    /\ variant = "full"
    /\ last.req.op = "updateSchema" /\ ~last.req.doc.hasRecord
    /\ last.status = 400
    /\ Len(registeredRoutes) > 0

FileUnusable(file) ==
    file.state \in {"missing", "garbage"}
    \/ ~validateSchema(JSONparse(file)).valid

\* C8: start never fails, and with a missing, unparseable or invalid schema
\* file the server holds the default schema and registers its route.
C8_StartKeepsDefault ==
    (variant = "server" /\ pc # "load") =>
        /\ pc = "bound"
        /\ FileUnusable(schemaFile) =>
              /\ currentSchema = DefaultSchema(variant)
              /\ registeredRoutes =
                    << [entity |-> "users", route |-> "/api/users"] >>

\* C9: while the store is not connected every entity operation a router
\* answers is served from the fallback store with its normal outcome
\* (201 for Create, 200 or 404 otherwise).
C9_FallbackServesAll ==
    (RouterAnswered /\ ~isMongoConnected) =>
        /\ last.source = "memory"
        /\ IF last.req.op = "create" THEN last.status = 201
           ELSE last.status \in {200, 404}

\* C10: GET /health reports database "memory" exactly when the store is
\* not connected and "connected" exactly when it is, with the entity names
\* of the current schema and the registered routes.
C10_HealthReportsMode ==
    [][(Health /\ last'.layer.kind = "route") =>
         (/\ last'.body.database =
                IF isMongoConnected' THEN "connected" ELSE "memory"
          /\ "entities" \in DOMAIN last'.body
          /\ "routes" \in DOMAIN last'.body
          /\ last'.body.entities = EntityNames(currentSchema')
          /\ last'.body.routes = Routes(registeredRoutes'))]_vars

-----------------------------------------------------------------------------
(* Properties of the entity operations *)

\* C11: Get by id with the identity a Create just returned, with no other
\* operation in between, succeeds and returns the fields of the created
\* payload, in either storage mode.
C11_GetAfterCreate ==
    [][(/\ last.req.op = "create" /\ last.status = 201
        /\ last'.req.op = "get" /\ last'.req.base = last.req.base
        /\ last'.req.id = last.body.data._id) =>
         (/\ last'.status = 200
          /\ \A k \in DOMAIN last.req.body :
                /\ k \in DOMAIN last'.body.data
                /\ last'.body.data[k] = last.req.body[k])]_vars

\* positions of the records whose surrogate key is the token, when the token
\* qualifies as one
BySurrogateKey(coll, token) ==
    IF isValidObjectId(token)
    THEN { i \in 1..Len(coll) : coll[i]._id = token }
    ELSE {}

\* positions of the records whose declared id field is the token, coerced
\* to a number when it is numeric (the ids that occur are numbers)
ByIdField(coll, token) ==
    IF isNaN(token) THEN {}
    ELSE { i \in 1..Len(coll) :
             "id" \in DOMAIN coll[i] /\ coll[i].id = parseInt(token) }

\* C12: Get by id on the connected store returns the record matched by
\* surrogate key when there is one, else the record matched by the declared
\* id field, and answers 404 when both lookups miss.
C12_ResolutionOrder ==
    (last.req.op = "get" /\ last.source = "db") =>
        LET coll == db[last.layer.model.name]
            a == BySurrogateKey(coll, last.req.id)
            b == ByIdField(coll, last.req.id)
        IN IF a # {}
           THEN last.status = 200 /\ last.body.data._id = last.req.id
           ELSE IF b # {}
           THEN last.status = 200 /\ last.body.data.id = parseInt(last.req.id)
           ELSE last.status = 404

\* the three by-id requests for one token at one router
ByIdRequest(op, method, layer, token) ==
    [Request(op, method, layer.path, "id")
       EXCEPT !.id = token, !.body = [note |-> "x"]]

\* C13: on the connected store Get, Update and Delete by id resolve a token
\* alike: the three answer with the same status and, when they find a
\* record, with the same record.
C13_SameResolution ==
    \A i \in 1..Len(stack) :
        (stack[i].kind = "router" /\ UseDb(stack[i])) =>
            \A token \in OrderTokens :
                LET g == getHandler(stack[i],
                            ByIdRequest("get", "GET", stack[i], token))
                    u == updateHandler(stack[i],
                            ByIdRequest("update", "PUT", stack[i], token),
                            clock)
                    d == deleteHandler(stack[i],
                            ByIdRequest("delete", "DELETE", stack[i], token))
                IN /\ g.status = u.status
                   /\ g.status = d.status
                   /\ g.status = 200 =>
                        /\ u.body.data._id = g.body.data._id
                        /\ "data" \in DOMAIN d.body =>
                              d.body.data._id = g.body.data._id

\* the fields of a declared schema whose constraint a payload violates: a
\* required field omitted, a value outside the enum, a number below min
ViolatedPaths(schema, body) ==
    { schema[i].name : i \in
        { j \in 1..Len(schema) :
            \/ schema[j].required /\ schema[j].name \notin DOMAIN body
            \/ /\ schema[j].name \in DOMAIN body
               /\ schema[j].enum # {}
               /\ body[schema[j].name] \notin schema[j].enum
            \/ /\ schema[j].name \in DOMAIN body
               /\ schema[j].hasMin
               /\ body[schema[j].name] < schema[j].min } }

\* C14: a Create whose payload omits a required field or violates an enum
\* or a numeric bound is answered 400 with details naming every violated
\* constraint, and no record is persisted.
C14_InvalidCreateRejected ==
    [][(/\ last'.req.op = "create" /\ last'.layer.kind = "router"
        /\ ViolatedPaths(last'.layer.schema, last'.req.body) # {}) =>
         (/\ last'.status = 400
          /\ "details" \in DOMAIN last'.body
          /\ { last'.body.details[i].path :
                 i \in 1..Len(last'.body.details) }
               = ViolatedPaths(last'.layer.schema, last'.req.body)
          /\ UNCHANGED << db, memoryStore >>)]_vars

\* the fields marked unique in which a payload repeats the value of a
\* record of the collection
RepeatedUnique(schema, coll, body) ==
    { schema[i].name : i \in
        { j \in 1..Len(schema) :
            /\ schema[j].unique
            /\ schema[j].name \in DOMAIN body
            /\ \E k \in 1..Len(coll) :
                  /\ schema[j].name \in DOMAIN coll[k]
                  /\ coll[k][schema[j].name] = body[schema[j].name] } }

\* the collection a router's Create writes to
WrittenBy(layer, source) ==
    IF source = "db" THEN db[Capitalize(layer.entity)]
    ELSE memoryStore[layer.entity]

Ceiling(n, l) == CHOOSE t \in 0..n : t * l >= n /\ (t = 0 \/ (t - 1) * l < n)

\* the total a List response reports, in the envelope or beside it
ReportedTotal(body) ==
    IF "total" \in DOMAIN body.pagination THEN body.pagination.total
    ELSE body.total

\* C16: a List over N records with limit L carries a pagination envelope
\* with total = N, the page, the limit and totalPages = ceil(N/L), and a
\* page beyond totalPages gives success with an empty data array, in either
\* storage mode.
C16_PaginationEnvelope ==
    (last.req.op = "list" /\ last.layer.kind = "router") =>
        LET n == Len(WrittenBy(last.layer, last.source))
            l == LimitOf(variant, last.req)
        IN /\ last.status = 200 /\ last.body.success
           /\ "pagination" \in DOMAIN last.body
           /\ ReportedTotal(last.body) = n
           /\ last.body.pagination.page = last.req.page
           /\ last.body.pagination.limit = l
           /\ last.body.pagination.totalPages = Ceiling(n, l)
           /\ last.req.page > Ceiling(n, l) => last.body.data = << >>

\* record p of a collection was created before record q: it was stored
\* earlier and, where both carry createdAt, at an earlier instant
CreatedBefore(coll, p, q) ==
    /\ p < q
    /\ ("createdAt" \in DOMAIN coll[p] /\ "createdAt" \in DOMAIN coll[q])
          => coll[p].createdAt < coll[q].createdAt

\* the orders of a collection that put no record before a newer one
NewestFirstOrders(coll) ==
    { s \in [1..Len(coll) -> 1..Len(coll)] :
        /\ \A i, j \in 1..Len(coll) : i # j => s[i] # s[j]
        /\ \A i, j \in 1..Len(coll) :
              i < j => ~CreatedBefore(coll, s[i], s[j]) }

\* C17: List returns the records at positions (page-1)*limit up to
\* (page-1)*limit+limit-1 of the records ordered newest-created first, in
\* every storage mode.
C17_NewestFirstSlice ==
    (last.req.op = "list" /\ last.layer.kind = "router") =>
        LET coll == WrittenBy(last.layer, last.source)
            l == LimitOf(variant, last.req)
            start == (last.req.page - 1) * l
            data == last.body.data
        IN \E s \in NewestFirstOrders(coll) :
              /\ Len(data) = IF Len(coll) <= start THEN 0
                             ELSE IF Len(coll) - start < l
                             THEN Len(coll) - start ELSE l
              /\ \A k \in 1..Len(data) : data[k] = coll[s[start + k]]

\* the fields of a declared schema whose resolved type is String: the type
\* token is "String" or none of the other storage types
ResolvedStringFields(schema) ==
    { schema[i].name : i \in
        { j \in 1..Len(schema) :
            schema[j].type \notin
                {"Number", "Boolean", "Date", "Array", "Object"} } }

\* the records a search must match
SearchMatches(schema, coll, search) ==
    IF ResolvedStringFields(schema) = {}
    THEN { coll[i] : i \in 1..Len(coll) }
    ELSE { coll[i] : i \in
             { j \in 1..Len(coll) :
                 \E f \in ResolvedStringFields(schema) :
                     /\ f \in DOMAIN coll[j]
                     /\ LowerIncludes(coll[j][f], search) } }

\* C18: a List with a non-empty search returns exactly the records in which
\* a field whose resolved type is String contains the text, whatever the
\* case, and every record when the entity has no String field.
C18_SearchStringFields ==
    (/\ last.req.op = "list" /\ last.layer.kind = "router"
     /\ last.req.search # "" /\ last.req.page = 1 /\ last.req.limit = 0) =>
        { last.body.data[i] : i \in 1..Len(last.body.data) } =
            SearchMatches(last.layer.schema,
                          WrittenBy(last.layer, last.source),
                          last.req.search)

\* the token of a by-id request names this record
Names(token, r) ==
    \/ r._id = token
    \/ "id" \in DOMAIN r /\ ~isNaN(token) /\ r.id = parseInt(token)

\* coll2 is coll1 with the body merged into record i and nothing else
\* changed
MergedAt(coll1, coll2, i, body) ==
    /\ Len(coll2) = Len(coll1)
    /\ \A j \in 1..Len(coll1) : j # i => coll2[j] = coll1[j]
    /\ DOMAIN coll2[i] = DOMAIN coll1[i] \cup DOMAIN body \cup {"updatedAt"}
    /\ \A k \in DOMAIN body : coll2[i][k] = body[k]
    /\ \A k \in DOMAIN coll1[i] \ (DOMAIN body \cup {"updatedAt"}) :
          coll2[i][k] = coll1[i][k]

\* C19: an Update by id that succeeds merges the payload into the record the
\* token names: the fields of the payload take its values, updatedAt is set,
\* every other field of the record and every other record keep their
\* values, and the merged record is returned.
C19_UpdateMerges ==
    [][(last'.req.op = "update" /\ last'.status = 200) =>
         LET layer == last'.layer
             body == last'.req.body
         IN IF last'.source = "db"
            THEN /\ memoryStore' = memoryStore
                 /\ \A m \in DOMAIN db :
                       m # layer.model.name => db'[m] = db[m]
                 /\ \E i \in 1..Len(db[layer.model.name]) :
                       /\ Names(last'.req.id, db[layer.model.name][i])
                       /\ MergedAt(db[layer.model.name],
                                   db'[layer.model.name], i, body)
                       /\ last'.body.data = db'[layer.model.name][i]
            ELSE /\ db' = db
                 /\ \A e \in DOMAIN memoryStore :
                       e # layer.entity => memoryStore'[e] = memoryStore[e]
                 /\ \E i \in 1..Len(memoryStore[layer.entity]) :
                       /\ Names(last'.req.id, memoryStore[layer.entity][i])
                       /\ MergedAt(memoryStore[layer.entity],
                                   memoryStore'[layer.entity], i, body)
                       /\ last'.body.data = memoryStore'[layer.entity][i]
       ]_vars

C19_Witness ==
    /\ last.req.op = "update" /\ last.status = 200
    /\ last.req.body = [name |-> "Bob"]
    /\ "email" \in DOMAIN last.body.data
    /\ last.body.data.email = "a@x.com"
    /\ last.body.data.name = "Bob"

\* the positions the resolution chain of a by-id request selects: the
\* surrogate key first, the declared id field when that finds nothing
Resolved(coll, token) ==
    IF BySurrogateKey(coll, token) # {} THEN BySurrogateKey(coll, token)
    ELSE ByIdField(coll, token)

RemoveAt(coll, i) ==
    [j \in 1..(Len(coll) - 1) |-> IF j < i THEN coll[j] ELSE coll[j + 1]]

\* C20: a Delete by id that succeeds removes exactly the one record the
\* token resolves to and leaves every other record in place; a Get by id
\* with the same token right after it is answered 404; a Delete answered 404
\* leaves the store unchanged.
C20_DeleteRemovesOne ==
    [][/\ (last'.req.op = "delete" /\ last'.status = 200) =>
            IF last'.source = "db"
            THEN /\ memoryStore' = memoryStore
                 /\ \A m \in DOMAIN db :
                       m # last'.layer.model.name => db'[m] = db[m]
                 /\ \E i \in Resolved(db[last'.layer.model.name],
                                      last'.req.id) :
                       db'[last'.layer.model.name] =
                          RemoveAt(db[last'.layer.model.name], i)
            ELSE /\ db' = db
                 /\ \A e \in DOMAIN memoryStore :
                       e # last'.layer.entity =>
                          memoryStore'[e] = memoryStore[e]
                 /\ \E i \in Resolved(memoryStore[last'.layer.entity],
                                      last'.req.id) :
                       memoryStore'[last'.layer.entity] =
                          RemoveAt(memoryStore[last'.layer.entity], i)
       /\ (last'.req.op = "delete" /\ last'.status = 404) =>
            (db' = db /\ memoryStore' = memoryStore)
       /\ (/\ last.req.op = "delete" /\ last.status = 200
           /\ last'.req.op = "get" /\ last'.req.base = last.req.base
           /\ last'.req.id = last.req.id) =>
            last'.status = 404
      ]_vars

-----------------------------------------------------------------------------
(* Properties of the schema validator and the model build *)

\* C21: validateSchema never throws: for every document, a null entity
\* config and a route that is no string included, the call returns a
\* result with valid, errors and warnings.
C21_ValidateNeverThrows ==
    (last.req.op = "validate" /\ last.body # NoBody) =>
        /\ ~last.body.threw
        /\ last.body.valid \in BOOLEAN

\* a call of validateSchema that returned, on a document with a record
Validated ==
    /\ last.req.op = "validate" /\ last.body # NoBody
    /\ ~last.body.threw

\* the route of a config is a string that starts with "/"
SlashRoute(c) ==
    /\ ~c.isNull /\ c.routeIsString
    /\ c.route \in {"/api/users", "/api/orders", "/api/items"}

FailedChecks(c) ==
    (IF SlashRoute(c) THEN {} ELSE {"route"}) \cup
    (IF ~c.isNull /\ c.hasBackend /\ c.hasSchema THEN {} ELSE {"backend"})

\* the errors a result holds for an entity, by the check they report
ReportedChecks(errors, name) ==
    { IF errors[k].msg \in {"Missing route", "Route must start with /"}
      THEN "route" ELSE "backend" :
      k \in { j \in 1..Len(errors) : errors[j].entity = name } }

\* C23: one call of validateSchema reports an error for every failed check
\* of every entity of the document; no error keeps a later check from being
\* made and reported.
C23_AllErrorsInOnePass ==
    (/\ last.req.op = "validate" /\ last.body # NoBody
     /\ last.req.doc.kind = "object" /\ last.req.doc.hasRecord) =>
        /\ ~last.body.threw
        /\ \A i \in 1..Len(last.req.doc.record) :
              ReportedChecks(last.body.errors, last.req.doc.record[i].name)
                 = FailedChecks(last.req.doc.record[i])

\* a call of a model builder that returned
Built == last.req.op = "build" /\ last.body # NoBody /\ ~last.body.threw

\* C24: the builder gives a field whose type token is one of String, Number,
\* Boolean, Date, Array, Object, Mixed, ObjectId that type, gives every
\* other field (another token, or no type) String, and fails for no field
\* definition.
C24_TypeMapper ==
    (last.req.op = "build" /\ last.body # NoBody) =>
        /\ ~last.body.threw
        /\ LET given == last.req.doc.record[1].schema[1].type
               built == last.body.model.fields[1].type
           IN built = IF given \in {"String", "Number", "Boolean", "Date",
                                    "Array", "Object", "Mixed", "ObjectId"}
                      THEN given ELSE "String"

\* C25: the builder gives a field whose default is the string "true" the
\* boolean true as default, one whose default is the string "false" the
\* boolean false, and every field with another literal default that same
\* default.
C25_BooleanSentinels ==
    Built =>
        LET given == last.req.doc.record[1].schema[1].default
            built == last.body.model.fields[1].default
        IN /\ given = Str("true") => built = Bool("true")
           /\ given = Str("false") => built = Bool("false")
           /\ given \notin {Str("true"), Str("false"), Str("Date.now")} =>
                 built = given

\* the fields of a schema whose default is the sentinel "Date.now"
NowFields(schema) ==
    { schema[i].name : i \in { j \in 1..Len(schema) :
                                  schema[j].default = Str("Date.now") } }

\* C26: a Create that omits a field whose default is "Date.now" stores the
\* time of that Create in it, so the values of two Creates that follow each
\* other do not decrease and are no value fixed when the model was built.
C26_NowAtEachCreate ==
    [][(/\ last'.req.op = "create" /\ last'.status = 201
        /\ last'.layer.kind = "router") =>
         \A k \in NowFields(last'.layer.schema) \ DOMAIN last'.req.body :
            /\ k \in DOMAIN last'.body.data
            /\ last'.body.data[k] = clock'
            /\ (/\ last.req.op = "create" /\ last.status = 201
                /\ k \in DOMAIN last.body.data) =>
                  last.body.data[k] <= last'.body.data[k]
      ]_vars

\* C27: the model is built with timestamps unless backend.options gives
\* timestamps false, and without strict mode unless backend.options gives
\* strict true.
C27_OptionsAttached ==
    Built =>
        LET options == last.req.doc.record[1].options
        IN /\ last.body.model.timestamps <=> options.timestamps # "false"
           /\ last.body.model.strict <=> options.strict = "true"

-----------------------------------------------------------------------------
(* Properties of the responses *)

\* C28: whatever the store raises during one of the five entity operations,
\* the handler answers the request, with a JSON body and a status of the
\* taxonomy.
C28_StoreFailureAnswered ==
    (IsEntityOp(last.req.op) /\ last.layer.kind = "router") =>
        /\ last.status \in {200, 201, 400, 404, 409, 500}
        /\ last.body # NoBody

\* C29: every response carries a boolean success, and a response whose
\* success is false carries an error text as well.
C29_SuccessEnvelope ==
    (last.req.op # "none" /\ last.status # 0) =>
        /\ "success" \in DOMAIN last.body
        /\ last.body.success \in BOOLEAN
        /\ ~last.body.success =>
              ("error" \in DOMAIN last.body /\ last.body.error # "")

-----------------------------------------------------------------------------
(* Properties of the schema update under concurrent requests *)

\* the registry a complete registration of a document leaves
RegistryOf(schema, connected) ==
    IF schema.kind = "object" /\ schema.hasRecord
    THEN BindableEntries(schema.record, 1, connected, {})
    ELSE << >>

FieldNames(fields) == [i \in 1..Len(fields) |-> fields[i].name]

\* the config of an entity in a document
ConfigOf(schema, entity) ==
    schema.record[CHOOSE i \in 1..Len(schema.record) :
                     schema.record[i].name = entity]

\* registry and model cache are those of a complete registration of the
\* schema, made with the store connected or not
Rebound(schema, routes, cache, connected) ==
    /\ routes = RegistryOf(schema, connected)
    /\ Len(cache) = IF connected THEN Len(routes) ELSE 0
    /\ \A i \in 1..Len(cache) :
          /\ cache[i].name = Capitalize(routes[i].entity)
          /\ FieldNames(cache[i].fields)
                = FieldNames(ConfigOf(schema, routes[i].entity).schema)

-----------------------------------------------------------------------------
(* Properties of the store connection *)

\* C31: while the store connection is established, every entity operation a
\* router answers works on the external store: it is answered from the
\* store and leaves the fallback store as it was, whatever the order in
\* which the connection attempt and the route registration completed.
C31_ConnectedUsesStore ==
    [][(/\ isMongoConnected
        /\ last' # last
        /\ IsEntityOp(last'.req.op)
        /\ last'.layer.kind = "router") =>
         /\ last'.source = "db"
         /\ memoryStore' = memoryStore
      ]_vars

-----------------------------------------------------------------------------
(* Properties of the model cache *)

\* a createModel call was made in this step
ModelCall ==
    /\ last'.req.op = "createModel"
    /\ << last, modelCache >>' # << last, modelCache >>

\* C32: createModel returns, for an entity that has a Model, that Model on
\* every call whatever config is passed, until the cache is cleared; the
\* first call that returns after a clear gives a Model built from the config
\* passed then, and the cache holds one Model per entity.
C32_MemoizedByName ==
    [][ModelCall =>
         LET c == last'.req.doc.record[1]
             r == last'.body
         IN /\ CacheHas(modelCache, Capitalize(c.name)) =>
                  /\ ~r.threw
                  /\ r.model = CacheGet(modelCache, Capitalize(c.name))
                  /\ modelCache' = modelCache
            /\ (/\ last.req.op = "createModel" /\ ~last.body.threw
                /\ last.req.doc.record[1].name = c.name) =>
                  (~r.threw /\ r.model = last.body.model)
            /\ (~CacheHas(modelCache, Capitalize(c.name)) /\ ~r.threw) =>
                  /\ r.model.name = Capitalize(c.name)
                  /\ FieldNames(r.model.fields) = FieldNames(c.schema)
                  /\ CacheGet(modelCache', r.model.name) = r.model
            /\ \A i, j \in 1..Len(modelCache') :
                  modelCache'[i].name = modelCache'[j].name => i = j
      ]_vars

\* a call with another field list than the one the entity's Model was built
\* from returned that Model
C32_Witness ==
    /\ last.req.op = "createModel" /\ ~last.body.threw
    /\ FieldNames(last.body.model.fields)
          # FieldNames(last.req.doc.record[1].schema)

\* the attempts in flight, and those that succeeded
PendingAttempts(d) ==
    { i \in 1..Len(d.attempts) : d.attempts[i] = "pending" }

SucceededAttempts(d) ==
    { i \in 1..Len(d.attempts) : d.attempts[i] = "ok" }

\* C33: connectDB starts a connection attempt only when no attempt is pending
\* and none has succeeded; a call made while an attempt is pending awaits
\* that attempt, a call made after a success returns true at once; the calls
\* that await an attempt return true when it succeeds and false when it
\* fails, and a call without MONGODB_URI returns false.
C33_ConnectOnce ==
    [][last'.req.op = "connectDB" =>
         LET started == Len(driver'.attempts) > Len(driver.attempts)
             called == Len(driver'.waiting) > Len(driver.waiting)
             settled == PendingAttempts(driver) \ PendingAttempts(driver')
         IN /\ started =>
                 (PendingAttempts(driver) = {}
                    /\ SucceededAttempts(driver) = {})
            /\ Cardinality(PendingAttempts(driver')) <= 1
            /\ (called /\ ~started) =>
                 driver'.waiting[Len(driver'.waiting)]
                    \in PendingAttempts(driver)
            /\ (settled = {} /\ ~called /\ driver' = driver
                  /\ last'.body.returned) =>
                 last'.body.value
                    = (mongoUriSet /\ SucceededAttempts(driver) # {})
            /\ settled # {} =>
                 /\ last'.body.returned
                 /\ last'.body.resumed >= 1
                 /\ last'.body.value = (settled \subseteq
                                            SucceededAttempts(driver'))
                 /\ last'.body.value => isMongoConnected'
                 /\ \A i \in settled : Awaiting(driver', i) = {}
      ]_vars

\* two calls awaited one attempt and returned when it settled
C33_Witness ==
    /\ last.req.op = "connectDB"
    /\ last.body.resumed >= 2
    /\ Len(driver.attempts) = 1

-----------------------------------------------------------------------------
(* Properties of List *)

\* C34: a List with a search text that the store answers succeeds, and every
\* record it returns holds the text as a literal substring of one of its
\* values, whatever characters the text is made of.
C34_SearchIsLiteral ==
    (/\ last.req.op = "list" /\ last.layer.kind = "router"
     /\ last.source = "db" /\ last.req.search # "") =>
        /\ last.status = 200
        /\ \A i \in 1..Len(last.body.data) :
              \E k \in DOMAIN last.body.data[i] :
                 LowerIncludes(TextOf(last.body.data[i], k), last.req.search)

-----------------------------------------------------------------------------
(* Properties of the identifiers *)

\* C35: when the schema declares a Number id field, the id a Create on the
\* store generates for a payload without id is the id of no record that is
\* in the collection.
C35_GeneratedIdIsFresh ==
    [][(/\ last'.req.op = "create" /\ last'.status = 201
        /\ last'.source = "db" /\ last'.layer.kind = "router"
        /\ DeclaresNumberId(last'.layer.schema)
        /\ ~Has(last'.req.body, "id")
        /\ db' # db) =>
         LET coll == db[last'.layer.model.name]
         IN \A i \in 1..Len(coll) :
               Has(coll[i], "id") => coll[i].id # last'.body.data.id
      ]_vars

\* C36: no two records of an entity in the fallback store have the same _id.
C36_FallbackIdsDistinct ==
    \A e \in DOMAIN memoryStore :
       \A i, j \in 1..Len(memoryStore[e]) :
          memoryStore[e][i]._id = memoryStore[e][j]._id => i = j

\* the integer ids equal to the number a numeric token denotes: none for
\* 1.5, and 1000 for 1e3
Denoted(token) ==
    CASE token = "1" -> {1} [] token = "2" -> {2} [] token = "3" -> {3}
      [] token = "1.5" -> {} [] token = "1e3" -> {1000}
      [] OTHER -> {}

\* C38: the record that Get or Delete reaches on the store with a numeric
\* token has the id the token denotes.
C38_NumericTokenDenotesId ==
    (/\ last.req.op \in {"get", "delete"} /\ last.status = 200
     /\ last.source = "db" /\ last.layer.kind = "router"
     /\ last.req.id \in NumericTokens) =>
        /\ Has(last.body.data, "id")
        /\ last.body.data.id \in Denoted(last.req.id)

-----------------------------------------------------------------------------
(* Properties of the entity names *)

\* the routers of the stack that have a Model
ModelRouters ==
    { i \in 1..Len(stack) : stack[i].kind = "router" /\ stack[i].hasModel }

\* C37: the routers of two entities with distinct names have distinct Models,
\* and a Create through one entity's route leaves the collection of every
\* other entity's Model as it was, so that no other entity's List or Get
\* returns the record.
C37_EntitiesApart ==
    [][(/\ last'.req.op = "create" /\ last'.status = 201
        /\ last'.source = "db" /\ last'.layer.kind = "router"
        /\ db' # db) =>
         \A i \in ModelRouters :
            stack[i].entity # last'.layer.entity =>
               /\ stack[i].model.name # last'.layer.model.name
               /\ db'[stack[i].model.name] = db[stack[i].model.name]
      ]_vars

-----------------------------------------------------------------------------
(* Properties of the pages of List *)

\* the answer of List for page p with limit l and a search, by a router
PageOf(layer, p, l, search) ==
    listHandler(layer, [Request("list", "GET", layer.path, "root")
                          EXCEPT !.page = p, !.limit = l, !.search = search])

\* the pages 1..n of a List, one after the other
RECURSIVE PagesUpTo(_, _, _, _)
PagesUpTo(layer, n, l, search) ==
    IF n = 0 THEN << >>
    ELSE PagesUpTo(layer, n - 1, l, search)
           \o PageOf(layer, n, l, search).body.data

\* how often a record occurs in a sequence
Occurrences(seq, r) == Cardinality({ i \in 1..Len(seq) : seq[i] = r })

\* the number of pages a List answer reports, or the one its total implies
\* when it carries no pagination
TotalPages(body, l) ==
    IF "pagination" \in DOMAIN body THEN body.pagination.totalPages
    ELSE Ceiling(body.total, l)

\* C39: for the records an entity holds, every search and every limit
\* L >= 1, each of the pages 1..totalPages of List holds at most L records,
\* and the pages together hold every matching record (the records of the
\* List without limit) as often as it is stored, so that no record is on two
\* pages.
C39_PagesPartition ==
    Serving =>
      \A i \in CurrentRouterIds, l \in 1..MaxRecords, search \in {"", "a"} :
        \A k \in 1..Len(stack) :
          (stack[k].kind = "router" /\ stack[k].id = i) =>
            LET layer == stack[k]
                first == PageOf(layer, 1, l, search)
                whole == PageOf(layer, 1, MaxRecords + 1, search).body.data
            IN /\ first.status = 200
               /\ LET n == TotalPages(first.body, l)
                      all == PagesUpTo(layer, n, l, search)
                  IN /\ \A p \in 1..n :
                          Len(PageOf(layer, p, l, search).body.data) <= l
                     /\ Len(all) = Len(whole)
                     /\ \A j \in 1..Len(whole) :
                          Occurrences(all, whole[j])
                             = Occurrences(whole, whole[j])

=============================================================================
